---- MODULE Spec2Model ----
(***************************************************************************)
(* A model of groupby: the grouped collections, the string groupers and    *)
(* their matchers, the record writer and subprocess handle, the result     *)
(* reporter and the two execution strategies.                              *)
(*                                                                         *)
(* Strings are sequences of bytes (small integers); an Option is a         *)
(* sequence of length at most one (None is <<>>, Some(x) is <<x>>).        *)
(***************************************************************************)
EXTENDS Integers, Sequences, FiniteSets, TLC

VARIABLES
    \* the program from its input to the command stage
    cPc,          \* a Child on its own: "alive", "panicked" or "waited"
    cStdin,       \* the Child's stdin field: Option<ChildStdin>
    cStdout,      \* the Child's stdout field: Option<ChildStdout>
    cWriters,     \* history: the stdin handles stdin() has returned
    cReaders,     \* history: the stdout handles stdout() has returned
    cCalls,       \* history: the calls made of stdin() and of stdout()
    cBuf,         \* the bytes written to the stdin handle
    repTree,      \* a BTreeMap used as a reporter
    repHash,      \* a HashMap used as a reporter
    repLogT,      \* history: the report calls made on repTree, in order
    repLogH,      \* history: the report calls made on repHash, in order
    gPc,          \* "parse", "parsed", "input", "output", "panicked", "failed"
                  \* (exit(1)) or "done"
    gArgs,        \* the grouping option on the command line and its text
    gSpec,        \* options.grouping once parsed: Option<GroupingSpecifier>
    gCompiles,    \* history: the number of Regex::new calls
    gSep,         \* options.input.separator
    gRaw,         \* the bytes of the input stream
    gCmd,         \* options.output.run_command: Option<String>
    gParallel,    \* options.output.parallel
    gShell,       \* whether the environment variable SHELL is set
    gInput,       \* the tokens of the input not read yet
    gRead,        \* history: the number of tokens read from the input
    gCalls,       \* history: the tokens runner.run was called with, in order
    gMap,         \* the grouped collection being built
    gLookups,     \* history: the number of current_shell calls
    gSpawns,      \* history: the number of subprocesses spawned
    gResult,      \* what run_command returned: None, or Some(keys reported)
    \* one call of a string matcher
    mFn,          \* the matcher that was called, "none" before the call
    mStr,         \* its string argument
    mN,           \* its n argument (first / last n characters)
    mRe,          \* its regex argument
    mCg,          \* its capture_group argument
    mRes,         \* what the call did: panicked, or returned val
    \* one run of each execution strategy over the same grouped collection
    rMap,         \* the grouped collection, entries in iteration order
    rOpt,         \* ShellCommandOptions: line_separator, only_group_names
    rCmd,         \* the shell command: "cat" echoes, "count" prints a byte count
    rStatus,      \* the exit status the command ends with, per entry
    sErr,         \* history: what failed in the sequential run ("" for nothing)
    pErr,         \* history: what failed in the closure of each entry
    sPc,          \* run_commands_sequentially: position of the only thread
    sIdx,         \* index of the entry map.iter() yields next
    sFed,         \* bytes fed to the subprocess of the current entry
    sOut,         \* result of the current capture_command_output call
    sResults,     \* the reporter of the sequential run
    sSpawns,      \* history: subprocesses spawned, per entry
    sReports,     \* history: report calls made, per entry
    pPc,          \* run_commands_in_parallel: position of each entry's closure
    pFed,         \* per entry: bytes fed to its subprocess
    pOut,         \* per entry: result of its capture_command_output call
    pTmp,         \* per entry: the map contents its insert started from
    pLock,        \* the Mutex: 0 when free, else the entry whose closure holds it
    pResults,     \* the reporter inside the Mutex
    pTree,        \* the same reporter as a BTreeMap: its entries as it enumerates them
    pSpawns,      \* history: subprocesses spawned, per entry
    pReports,     \* history: report calls made, per entry
    pReturned,    \* run_commands_in_parallel has returned results.into_inner()
    \* grouped collections
    btree,        \* BTreeMap<Key, Vec<Value>>: entries in ascending key order
    hmap,         \* HashMap<Key, Vec<Value>>: entries in the map's iteration order
    gcLog,        \* history: the add(k, v) calls made so far
    gcStats,      \* what statistics_for last computed, and the group sizes it saw
    \* string groupers behind one Runner
    grMap,        \* the collection the Runner is bound to
    grSpec,       \* the GroupingSpecifier the Runner was built from
    grPc,         \* "running", or "panicked" once a grouper has panicked
    grLog,        \* history: the tokens whose Runner::run call returned
    \* the process-wide counter of match_counter
    COUNTER,      \* static COUNTER: CounterUsize
    ctPc,         \* per thread: position inside group_by_counter / match_counter
    ctKey,        \* per thread: the value its match_counter call returned
    ctMap,        \* per thread: the collection its Runner is bound to
    ctLog,        \* history: the values match_counter returned, in call order
    \* one subprocess behind a Handle (capture_command_output and its caller)
    uOpt,         \* ShellCommandOptions: line_separator, only_group_names
    uKey,         \* the group's key
    uVals,        \* the group's values
    uProg,        \* the shell command: "cat" echoes, "count" prints a byte count
    uPc,          \* position of the thread that owns the Handle
    uItems,       \* the records of the write / write_all call in progress
    uIdx,         \* index of the record being written
    uStage,       \* "value", "sep" (the two write_all of _write) or "flushed"
    uCold,        \* BufWriter::write_all_cold has flushed the buffer
    uBuf,         \* BufWriter's buffer
    uPend,        \* bytes of a blocking write to the pipe not yet accepted
    uStdinOpen,   \* the write end of the child's stdin is open
    uInPipe,      \* the child's stdin pipe
    uChildBuf,    \* bytes the child has read and not yet written
    uChildCount,  \* bytes the child has read
    uChildEof,    \* the child has seen end of file on its stdin
    uAlive,       \* the child runs (its stdout is open)
    uOutPipe,     \* the child's stdout pipe
    uOutput,      \* Output::stdout collected so far
    uFed,         \* history: the bytes written to the child's stdin
    uWrites       \* history: write / write_all calls made on handle.stdin

varsGC == <<btree, hmap, gcLog, gcStats>>
varsGR == <<grMap, grSpec, grPc, grLog>>
varsCT == <<ctPc, ctKey, ctMap, ctLog>>
varsIn == <<uOpt, uKey, uVals, uProg>>
varsW == <<uItems, uIdx, uStage, uCold, uBuf, uWrites>>
varsCh == <<uChildBuf, uChildCount, uChildEof, uAlive, uOutPipe>>
varsU == <<varsIn, uPc, varsW, uPend, uStdinOpen, uInPipe, varsCh, uOutput, uFed>>
varsSeq == <<sPc, sIdx, sFed, sOut, sResults, sSpawns, sReports>>
varsPar == <<pPc, pFed, pOut, pTmp, pLock, pResults, pTree, pSpawns, pReports, pReturned>>
varsRun == <<rMap, rOpt, rCmd, rStatus, sErr, pErr, varsSeq, varsPar>>
varsM == <<mFn, mStr, mN, mRe, mCg, mRes>>
varsChild == <<cPc, cStdin, cStdout, cWriters, cReaders, cCalls, cBuf>>
varsRep == <<repTree, repHash, repLogT, repLogH>>
varsOpt == <<gArgs, gSep, gRaw, gCmd, gParallel, gShell>>
varsMain == <<gPc, varsOpt, gSpec, gCompiles, gInput, gRead, gCalls, gMap, gLookups,
              gSpawns, gResult>>
vars == <<varsGC, varsGR, COUNTER, varsCT, varsU, varsRun, varsM, varsMain, varsChild, varsRep>>

----------------------------------------------------------------------------
(* Bounds of the model.                                                    *)

MaxAdds == 4       \* add calls on one grouped collection
MaxN == 3           \* largest n passed to match_first_n_chars / match_last_n_chars
MaxInput == 3       \* tokens in the input of one program run
MaxTokens == 4     \* tokens fed through one Runner
MaxCalls == 4      \* match_counter calls in the process
NumThreads == 3    \* threads calling match_counter
MaxGroups == 2     \* groups in the collection the strategies run over
PoolSize == 2      \* threads of the Rayon pool
MaxVals == 2       \* values in the group fed to one subprocess
MaxWrites == 2     \* write / write_all calls a caller makes on one Handle
PipeCap == 2       \* bytes an OS pipe holds
ChildCap == 1      \* bytes the child holds between reading and writing
MaxReports == 3    \* report calls made on one reporter
BufCap == 2        \* capacity of the BufWriter around the child's stdin

----------------------------------------------------------------------------
(* Strings, options, ordering.                                             *)

None == <<>>
Some(x) == <<x>>

\* Ord for String: lexicographic on bytes.
RECURSIVE StrLess(_, _)
StrLess(a, b) ==
    IF b = <<>> THEN FALSE
    ELSE IF a = <<>> THEN TRUE
    ELSE IF Head(a) # Head(b) THEN Head(a) < Head(b)
    ELSE StrLess(Tail(a), Tail(b))

Range(s) == {s[i] : i \in 1..Len(s)}

\* The permutations of the sequence s (every order a hash table may iterate in).
Perms(s) ==
    {p \in [1..Len(s) -> Range(s)] :
        \A i, j \in 1..Len(s) : i # j => p[i] # p[j]}

----------------------------------------------------------------------------
(* Grouped collections: BTreeMap<Key, Vec<Value>>, HashMap<Key, Vec<Value>>*)
(* A map is the sequence of its entries [key, vals] in iteration order.    *)

IndexOf(m, k) == CHOOSE i \in 1..Len(m) : m[i].key = k

\* Entry::Occupied: the key has an entry.
OccupiedM(m, k) == FALSE
Occupied(m, k) == \E i \in 1..Len(m) : m[i].key = k

\* vec.get_mut().push(value)
PushM(vec, value) == <<value>>
Push(vec, value) == Append(vec, value)

\* The place of a vacant key in a BTreeMap: after every smaller key.
SlotM(m, k) == Len(m)
Slot(m, k) == Cardinality({i \in 1..Len(m) : StrLess(m[i].key, k)})

BTreeAddM(m, k, v) ==
    IF Occupied(m, k)
    THEN [m EXCEPT ![IndexOf(m, k)].vals = <<v>>]
    ELSE SubSeq(m, 1, Slot(m, k)) \o <<[key |-> k, vals |-> <<v>>]>>
            \o SubSeq(m, Slot(m, k) + 1, Len(m))
BTreeAdd(m, k, v) ==
    IF Occupied(m, k)
    THEN [m EXCEPT ![IndexOf(m, k)].vals = Push(@, v)]
    ELSE SubSeq(m, 1, Slot(m, k)) \o <<[key |-> k, vals |-> <<v>>]>>
            \o SubSeq(m, Slot(m, k) + 1, Len(m))

\* A HashMap gives no order: inserting a key may leave the entries in any order.
HashAdd(m, k, v) ==
    IF Occupied(m, k)
    THEN {[m EXCEPT ![IndexOf(m, k)].vals = Push(@, v)]}
    ELSE Perms(Append(m, [key |-> k, vals |-> <<v>>]))

\* get(key): Option<&Vec<Value>>
MapGet(m, k) == IF Occupied(m, k) THEN Some(m[IndexOf(m, k)].vals) ELSE None

\* iter(): the (key, group) pairs in the map's order
MapIter(m) == [i \in 1..Len(m) |-> <<m[i].key, m[i].vals>>]

GCKeys == {<<97>>, <<98>>, <<97, 98>>}
GCVals == {<<97>>, <<98>>}

GCInit == btree = <<>> /\ hmap = <<>> /\ gcLog = <<>> /\ gcStats = None

\* map.add(k, v) on both implementations
Add(k, v) ==
    /\ Len(gcLog) < MaxAdds
    /\ btree' = BTreeAdd(btree, k, v)
    /\ hmap' \in HashAdd(hmap, k, v)
    /\ gcLog' = Append(gcLog, <<k, v>>)
    /\ UNCHANGED <<gcStats, varsGR, COUNTER, varsCT, varsU, varsRun, varsM, varsMain, varsChild, varsRep>>


----------------------------------------------------------------------------
(* Matchers for strings.                                                   *)

\* str::is_char_boundary: a byte offset of s that does not fall inside a
\* multi-byte UTF-8 character (bytes 128..191 are continuation bytes).
IsCharBoundary(s, i) ==
    \/ i = 0
    \/ i = Len(s)
    \/ i \in 1..(Len(s) - 1) /\ s[i + 1] \notin 128..191

\* &string[from..to]: the bytes from..to-1 (offsets from 0); slicing off a
\* character boundary panics, which the callers below check with SliceOk.
Slice(s, from, to) == SubSeq(s, from + 1, to)
SliceOk(s, from, to) == IsCharBoundary(s, from) /\ IsCharBoundary(s, to)

match_first_n_chars(string, n) ==
    IF n > Len(string) THEN string ELSE Slice(string, 0, n)
first_n_panics(string, n) ==
    n <= Len(string) /\ ~SliceOk(string, 0, n)

match_last_n_chars(string, n) ==
    IF n > Len(string) THEN string ELSE Slice(string, Len(string) - n, Len(string))
last_n_panics(string, n) ==
    n <= Len(string) /\ ~SliceOk(string, Len(string) - n, Len(string))

\* A compiled Regex is one of three patterns over the bytes c and d:
\*   "lit":  c        (no capture group)
\*   "run":  c(d*)    (group 1 always takes part, and may be empty)
\*   "alt":  (d)|c    (group 1 takes part only when the d branch matched)
\* Regex::captures finds the leftmost match; the result is None or
\* Some(<<group 0, group 1, ...>>), each group an Option<&str>.
FirstIdx(s, set) ==
    IF \E i \in 1..Len(s) : s[i] \in set
    THEN CHOOSE i \in 1..Len(s) : s[i] \in set /\ \A j \in 1..(i - 1) : s[j] \notin set
    ELSE 0

\* The end of the longest run of d that starts right after position i.
RunEnd(s, i, d) ==
    CHOOSE e \in i..Len(s) :
        /\ \A j \in (i + 1)..e : s[j] = d
        /\ (e < Len(s) => s[e + 1] # d)

Captures(re, s) ==
    CASE re.kind = "lit" ->
            LET i == FirstIdx(s, {re.c})
            IN  IF i = 0 THEN None ELSE Some(<<Some(<<re.c>>)>>)
      [] re.kind = "run" ->
            LET i == FirstIdx(s, {re.c})
            IN  IF i = 0 THEN None
                ELSE Some(<<Some(SubSeq(s, i, RunEnd(s, i, re.d))),
                            Some(SubSeq(s, i + 1, RunEnd(s, i, re.d)))>>)
      [] re.kind = "alt" ->
            LET i == FirstIdx(s, {re.c, re.d})
            IN  IF i = 0 THEN None
                ELSE IF s[i] = re.d THEN Some(<<Some(<<re.d>>), Some(<<re.d>>)>>)
                ELSE Some(<<Some(<<re.c>>), None>>)

\* captures.get(n): None when the group does not exist or took no part.
CapGet(caps, n) == IF n + 1 \in 1..Len(caps) THEN caps[n + 1] ELSE None

\* match_regex with two arguments (the one group_by_regex calls): the first
\* capture group's match if it took part, otherwise the overall match.
match_regex(line, regex) ==
    LET c == Captures(regex, line)
    IN  IF c = None THEN None
        ELSE IF CapGet(c[1], 1) # None THEN CapGet(c[1], 1)
        ELSE CapGet(c[1], 0)

Dot == 46

\* filename.rfind('.'): the offset of the last '.', if any
RFindM(s, b) ==
    IF \E i \in 1..Len(s) : s[i] = b
    THEN Some((CHOOSE i \in 1..Len(s) : s[i] = b /\ \A j \in 1..(i - 1) : s[j] # b) - 1)
    ELSE None
RFind(s, b) ==
    IF \E i \in 1..Len(s) : s[i] = b
    THEN Some((CHOOSE i \in 1..Len(s) : s[i] = b /\ \A j \in (i + 1)..Len(s) : s[j] # b) - 1)
    ELSE None

match_file_extension(filename) ==
    LET r == RFind(filename, Dot)
    IN  IF r = None THEN None
        ELSE IF r[1] = 0 THEN None
        ELSE IF r[1] >= Len(filename) - 1 THEN None
        ELSE Some(Slice(filename, r[1] + 1, Len(filename)))

\* CounterUsize::inc: an atomic fetch-and-add of one; returns the previous
\* value. (A usize wraps at 2^64, which no bounded run of calls reaches.)
FetchAddM(c) == [ret |-> c, new |-> c]
FetchAdd(c) == [ret |-> c, new |-> c + 1]

\* Option::unwrap_or
UnwrapOrM(opt, default) == IF opt = None THEN <<63>> ELSE opt[1]
UnwrapOr(opt, default) == IF opt = None THEN default ELSE opt[1]

\* usize::to_string: the decimal digits
RECURSIVE to_string(_)
to_string(n) ==
    IF n < 10 THEN <<48 + n>> ELSE to_string(n \div 10) \o <<48 + (n % 10)>>

----------------------------------------------------------------------------
(* String groupers (impl Groupers for GC) and the Runner.                  *)

group_by_first_chars(map, line, n) == BTreeAdd(map, match_first_n_chars(line, n), line)

group_by_last_charsM(map, line, n) == BTreeAdd(map, match_first_n_chars(line, n), line)
group_by_last_chars(map, line, n) == BTreeAdd(map, match_last_n_chars(line, n), line)

group_by_regex(map, line, regex) ==
    BTreeAdd(map, UnwrapOr(match_regex(line, regex), <<>>), line)

group_by_file_extension(map, filename) ==
    BTreeAdd(map, UnwrapOr(match_file_extension(filename), <<>>), filename)

group_by_counter(map, line, ret) == BTreeAdd(map, to_string(ret), line)

Tokens == {<<>>, <<97>>, <<98>>, <<98, 97>>, <<97, 46, 98>>, <<46, 97>>, <<195, 169>>}

Patterns ==
    {[kind |-> "lit", c |-> 98, d |-> 97],
     [kind |-> "run", c |-> 98, d |-> 97],
     [kind |-> "alt", c |-> 98, d |-> 97]}

\* CaptureGroup::Number(n)
CaptureGroups == {[number |-> 0], [number |-> 1]}

GroupingSpecifiers ==
    {[kind |-> "FirstChars", n |-> n] : n \in 0..2}
    \cup {[kind |-> "LastChars", n |-> n] : n \in 0..2}
    \cup {[kind |-> "Regex", re |-> re, cg |-> cg] : re \in Patterns, cg \in CaptureGroups}
    \cup {[kind |-> "FileExtension"], [kind |-> "Counter"]}

\* Runner::new(map, spec) on an empty collection
GRInit ==
    /\ grMap = <<>>
    /\ grSpec \in GroupingSpecifiers
    /\ grPc = "running"
    /\ grLog = <<>>

CanRun == grPc = "running" /\ Len(grLog) < MaxTokens

\* runner.run(s) with GroupingSpecifier::FirstChars(n)
RunFirstChars(s) ==
    /\ CanRun /\ grSpec.kind = "FirstChars"
    /\ IF first_n_panics(s, grSpec.n)
       THEN grPc' = "panicked" /\ UNCHANGED <<grMap, grLog>>
       ELSE /\ grMap' = group_by_first_chars(grMap, s, grSpec.n)
            /\ grLog' = Append(grLog, s)
            /\ UNCHANGED grPc
    /\ UNCHANGED <<grSpec, COUNTER, varsGC, varsCT, varsU, varsRun, varsM, varsMain, varsChild, varsRep>>

\* runner.run(s) with GroupingSpecifier::LastChars(n)
RunLastChars(s) ==
    /\ CanRun /\ grSpec.kind = "LastChars"
    /\ IF last_n_panics(s, grSpec.n)
       THEN grPc' = "panicked" /\ UNCHANGED <<grMap, grLog>>
       ELSE /\ grMap' = group_by_last_chars(grMap, s, grSpec.n)
            /\ grLog' = Append(grLog, s)
            /\ UNCHANGED grPc
    /\ UNCHANGED <<grSpec, COUNTER, varsGC, varsCT, varsU, varsRun, varsM, varsMain, varsChild, varsRep>>

\* runner.run(s) with GroupingSpecifier::Regex(re, _cg)
RunRegex(s) ==
    /\ CanRun /\ grSpec.kind = "Regex"
    /\ grMap' = group_by_regex(grMap, s, grSpec.re)
    /\ grLog' = Append(grLog, s)
    /\ UNCHANGED <<grSpec, grPc, COUNTER, varsGC, varsCT, varsU, varsRun, varsM, varsMain, varsChild, varsRep>>

\* runner.run(s) with GroupingSpecifier::FileExtension
RunFileExtension(s) ==
    /\ CanRun /\ grSpec.kind = "FileExtension"
    /\ grMap' = group_by_file_extension(grMap, s)
    /\ grLog' = Append(grLog, s)
    /\ UNCHANGED <<grSpec, grPc, COUNTER, varsGC, varsCT, varsU, varsRun, varsM, varsMain, varsChild, varsRep>>

\* runner.run(s) with GroupingSpecifier::Counter
RunCounter(s) ==
    /\ CanRun /\ grSpec.kind = "Counter"
    /\ grMap' = group_by_counter(grMap, s, FetchAdd(COUNTER).ret)
    /\ COUNTER' = FetchAdd(COUNTER).new
    /\ grLog' = Append(grLog, s)
    /\ UNCHANGED <<grSpec, grPc, varsGC, varsCT, varsU, varsRun, varsM, varsMain, varsChild, varsRep>>

----------------------------------------------------------------------------
(* match_counter under concurrent callers. Thread 1 calls match_counter    *)
(* directly; every other thread feeds lines through its own Runner, bound  *)
(* to GroupingSpecifier::Counter and to its own collection.                *)

Threads == 1..NumThreads
CTLines == {<<97>>}

CTInit ==
    /\ ctPc = [t \in Threads |-> "idle"]
    /\ ctKey = [t \in Threads |-> None]
    /\ ctMap = [t \in Threads |-> <<>>]
    /\ ctLog = <<>>

\* match_counter(), called directly
CtMatchCounter(t) ==
    /\ t = 1 /\ ctPc[t] = "idle" /\ Len(ctLog) < MaxCalls
    /\ COUNTER' = FetchAdd(COUNTER).new
    /\ ctKey' = [ctKey EXCEPT ![t] = Some(FetchAdd(COUNTER).ret)]
    /\ ctLog' = Append(ctLog, FetchAdd(COUNTER).ret)
    /\ UNCHANGED <<ctPc, ctMap, varsGC, varsGR, varsU, varsRun, varsM, varsMain, varsChild, varsRep>>

\* group_by_counter: let key = match_counter().to_string();
CtGroupCall(t) ==
    /\ t # 1 /\ ctPc[t] = "idle" /\ Len(ctLog) < MaxCalls
    /\ COUNTER' = FetchAdd(COUNTER).new
    /\ ctKey' = [ctKey EXCEPT ![t] = Some(FetchAdd(COUNTER).ret)]
    /\ ctLog' = Append(ctLog, FetchAdd(COUNTER).ret)
    /\ ctPc' = [ctPc EXCEPT ![t] = "add"]
    /\ UNCHANGED <<ctMap, varsGC, varsGR, varsU, varsRun, varsM, varsMain, varsChild, varsRep>>

\* group_by_counter: self.add(key, line);
CtGroupAdd(t, line) ==
    /\ ctPc[t] = "add"
    /\ ctMap' = [ctMap EXCEPT ![t] = group_by_counter(@, line, ctKey[t][1])]
    /\ ctPc' = [ctPc EXCEPT ![t] = "idle"]
    /\ UNCHANGED <<COUNTER, ctKey, ctLog, varsGC, varsGR, varsU, varsRun, varsM, varsMain, varsChild, varsRep>>

----------------------------------------------------------------------------
(* One subprocess: command_runner::run, Handle, RecordWriter, and the      *)
(* child process with its two pipes.                                       *)

\* capture_command_output: the records passed to handle.stdin, write(key)
\* when only_group_names and write_all(values.iter()) otherwise.
WriteItemsM(options, key, values) == IF options.only_group_names THEN values ELSE <<key>>
WriteItems(options, key, values) == IF options.only_group_names THEN <<key>> ELSE values

\* BufWriter::write_all(b) on a buffer buf; cold says write_all_cold has
\* already flushed. Gives the new buffer, the bytes that go to the pipe in a
\* blocking write, and whether write_all has returned.
BufWriteAll(buf, b, cold) ==
    IF ~cold /\ Len(b) < BufCap - Len(buf)
    THEN [buf |-> buf \o b, pend |-> <<>>, done |-> TRUE]
    ELSE IF ~cold /\ Len(b) > BufCap - Len(buf)
    THEN [buf |-> <<>>, pend |-> buf, done |-> FALSE]
    ELSE IF Len(b) >= BufCap
    THEN [buf |-> buf, pend |-> b, done |-> TRUE]
    ELSE [buf |-> buf \o b, pend |-> <<>>, done |-> TRUE]

\* drop(self.stdin): the write end of the pipe is closed
DropStdinM(open) == open
DropStdin(open) == FALSE

Separators == {<<32>>, <<32, 32, 32>>}
UKeys == {<<100>>}
UValues == {<<97>>, <<98, 98>>}
ValueLists == UNION {[1..n -> UValues] : n \in 0..MaxVals}

UIdle ==
    /\ uOpt = [line_separator |-> <<>>, only_group_names |-> FALSE]
    /\ uKey = <<>> /\ uVals = <<>> /\ uProg = "cat"
    /\ uPc = "new"
    /\ uItems = <<>> /\ uIdx = 1 /\ uStage = "value" /\ uCold = FALSE
    /\ uBuf = <<>> /\ uPend = <<>> /\ uWrites = 0
    /\ uStdinOpen = FALSE /\ uInPipe = <<>>
    /\ uChildBuf = <<>> /\ uChildCount = 0 /\ uChildEof = FALSE /\ uAlive = FALSE
    /\ uOutPipe = <<>> /\ uOutput = <<>> /\ uFed = <<>>

UInit ==
    /\ uOpt \in [line_separator : Separators, only_group_names : BOOLEAN]
    /\ uKey \in UKeys /\ uVals \in ValueLists /\ uProg \in {"cat", "count"}
    /\ uPc = "new"
    /\ uItems = <<>> /\ uIdx = 1 /\ uStage = "value" /\ uCold = FALSE
    /\ uBuf = <<>> /\ uPend = <<>> /\ uWrites = 0
    /\ uStdinOpen = FALSE /\ uInPipe = <<>>
    /\ uChildBuf = <<>> /\ uChildCount = 0 /\ uChildEof = FALSE /\ uAlive = FALSE
    /\ uOutPipe = <<>> /\ uOutput = <<>> /\ uFed = <<>>

Others == <<varsGC, varsGR, COUNTER, varsCT, varsRun, varsM, varsMain, varsChild, varsRep>>

\* command_runner::run: spawn with piped stdin and stdout, then Handle::new
Spawn ==
    /\ uPc = "new"
    /\ uPc' = "ready" /\ uStdinOpen' = TRUE /\ uAlive' = TRUE
    /\ UNCHANGED <<varsIn, varsW, uPend, uInPipe, uChildBuf, uChildCount,
                   uChildEof, uOutPipe, uOutput, uFed, Others>>

\* handle.stdin.write(..) / write_all(..) is entered with these records
BeginWrite(items) ==
    /\ uItems' = items /\ uIdx' = 1 /\ uStage' = "value" /\ uCold' = FALSE
    /\ uWrites' = uWrites + 1
    /\ uPc' = "writing"
    /\ UNCHANGED <<varsIn, uBuf, uPend, uStdinOpen, uInPipe, varsCh, uOutput, uFed, Others>>

\* capture_command_output: pass along the group's contents (or name)
CaptureFeed ==
    /\ uPc = "ready" /\ uWrites = 0
    /\ BeginWrite(WriteItems(uOpt, uKey, uVals))

\* RecordWriter::_write: one of its two writer.write_all calls
RecordWrite ==
    /\ uPc = "writing" /\ uPend = <<>> /\ uStage \in {"value", "sep"}
    /\ uIdx <= Len(uItems)
    /\ LET b == IF uStage = "value" THEN uItems[uIdx] ELSE uOpt.line_separator
           r == BufWriteAll(uBuf, b, uCold)
       IN  /\ uBuf' = r.buf /\ uPend' = r.pend
           /\ uCold' = ~r.done
           /\ uStage' = IF ~r.done THEN uStage
                        ELSE IF uStage = "value" THEN "sep" ELSE "value"
           /\ uIdx' = IF r.done /\ uStage = "sep" THEN uIdx + 1 ELSE uIdx
    /\ UNCHANGED <<varsIn, uPc, uItems, uWrites, uStdinOpen, uInPipe, varsCh,
                   uOutput, uFed, Others>>

\* RecordWriter::write / write_all: self.writer.flush()
Flush ==
    /\ uPc = "writing" /\ uPend = <<>> /\ uStage = "value"
    /\ uIdx > Len(uItems)
    /\ uPend' = uBuf /\ uBuf' = <<>> /\ uStage' = "flushed"
    /\ UNCHANGED <<varsIn, uPc, uItems, uIdx, uCold, uWrites, uStdinOpen, uInPipe,
                   varsCh, uOutput, uFed, Others>>

\* write / write_all returns once the flush has gone through
WriteReturn ==
    /\ uPc = "writing" /\ uPend = <<>> /\ uStage = "flushed"
    /\ uPc' = "ready"
    /\ UNCHANGED <<varsIn, varsW, uPend, uStdinOpen, uInPipe, varsCh, uOutput, uFed, Others>>

\* a blocking write(2) on the stdin pipe: the pipe accepts a byte when it has room
PipeAccept ==
    /\ uPend # <<>> /\ Len(uInPipe) < PipeCap
    /\ uInPipe' = Append(uInPipe, Head(uPend))
    /\ uFed' = Append(uFed, Head(uPend))
    /\ uPend' = Tail(uPend)
    /\ UNCHANGED <<varsIn, uPc, varsW, uStdinOpen, varsCh, uOutput, Others>>

\* the child reads a byte of its stdin
ChildRead ==
    /\ uAlive /\ ~uChildEof /\ uInPipe # <<>>
    /\ uProg = "cat" => Len(uChildBuf) < ChildCap
    /\ uInPipe' = Tail(uInPipe)
    /\ uChildBuf' = IF uProg = "cat" THEN Append(uChildBuf, Head(uInPipe)) ELSE uChildBuf
    /\ uChildCount' = uChildCount + 1
    /\ UNCHANGED <<varsIn, uPc, varsW, uPend, uStdinOpen, uChildEof, uAlive,
                   uOutPipe, uOutput, uFed, Others>>

\* the child reads end of file: its stdin is empty and no writer is left
ChildEof ==
    /\ uAlive /\ ~uChildEof /\ uInPipe = <<>> /\ ~uStdinOpen
    /\ uChildEof' = TRUE
    /\ uChildBuf' = IF uProg = "count" THEN to_string(uChildCount) ELSE uChildBuf
    /\ UNCHANGED <<varsIn, uPc, varsW, uPend, uStdinOpen, uInPipe, uChildCount,
                   uAlive, uOutPipe, uOutput, uFed, Others>>

\* the child writes a byte to its stdout, when the pipe has room
ChildWrite ==
    /\ uAlive /\ uChildBuf # <<>> /\ Len(uOutPipe) < PipeCap
    /\ uOutPipe' = Append(uOutPipe, Head(uChildBuf))
    /\ uChildBuf' = Tail(uChildBuf)
    /\ UNCHANGED <<varsIn, uPc, varsW, uPend, uStdinOpen, uInPipe, uChildCount,
                   uChildEof, uAlive, uOutput, uFed, Others>>

\* the child exits after end of file, with everything written
ChildExit ==
    /\ uAlive /\ uChildEof /\ uChildBuf = <<>>
    /\ uAlive' = FALSE
    /\ UNCHANGED <<varsIn, uPc, varsW, uPend, uStdinOpen, uInPipe, uChildBuf,
                   uChildCount, uChildEof, uOutPipe, uOutput, uFed, Others>>

\* Handle::wait_with_output: drop(self.stdin);
WaitDrop ==
    /\ uPc = "ready"
    /\ uStdinOpen' = DropStdin(uStdinOpen)
    /\ uPc' = "dropped"
    /\ UNCHANGED <<varsIn, varsW, uPend, uInPipe, varsCh, uOutput, uFed, Others>>

\* capture_command_output: handle.wait_with_output(), after the feed
CaptureWait == uWrites = 1 /\ WaitDrop

\* Handle::wait_with_output: self.child.wait_with_output()
WaitChild ==
    /\ uPc = "dropped"
    /\ uPc' = "collect"
    /\ UNCHANGED <<varsIn, varsW, uPend, uStdinOpen, uInPipe, varsCh, uOutput, uFed, Others>>

\* Child::wait_with_output reads the child's stdout to its end
Collect ==
    /\ uPc = "collect" /\ uOutPipe # <<>>
    /\ uOutput' = Append(uOutput, Head(uOutPipe))
    /\ uOutPipe' = Tail(uOutPipe)
    /\ UNCHANGED <<varsIn, uPc, varsW, uPend, uStdinOpen, uInPipe, uChildBuf,
                   uChildCount, uChildEof, uAlive, uFed, Others>>

\* ... and returns the Output once the child has exited
Reap ==
    /\ uPc = "collect" /\ uOutPipe = <<>> /\ ~uAlive
    /\ uPc' = "done"
    /\ UNCHANGED <<varsIn, varsW, uPend, uStdinOpen, uInPipe, varsCh, uOutput, uFed, Others>>

\* A caller of the Handle API other than capture_command_output.

HandleLists == {<<>>, <<<<97>>>>, <<<<97>>, <<98, 98>>>>}

HInit ==
    /\ uOpt \in [line_separator : Separators, only_group_names : {FALSE}]
    /\ uKey = <<>> /\ uVals = <<>> /\ uProg \in {"cat", "count"}
    /\ uPc = "new"
    /\ uItems = <<>> /\ uIdx = 1 /\ uStage = "value" /\ uCold = FALSE
    /\ uBuf = <<>> /\ uPend = <<>> /\ uWrites = 0
    /\ uStdinOpen = FALSE /\ uInPipe = <<>>
    /\ uChildBuf = <<>> /\ uChildCount = 0 /\ uChildEof = FALSE /\ uAlive = FALSE
    /\ uOutPipe = <<>> /\ uOutput = <<>> /\ uFed = <<>>

\* handle.stdin.write(value)
CallWrite(value) ==
    /\ uPc = "ready" /\ uWrites < MaxWrites
    /\ BeginWrite(<<value>>)

\* handle.stdin.write_all(values)
CallWriteAll(values) ==
    /\ uPc = "ready" /\ uWrites < MaxWrites
    /\ BeginWrite(values)

\* handle.child(): the caller gets the raw child; the rest of the Handle,
\* its stdin writer, is dropped as the method returns
CallChild ==
    /\ uPc = "ready"
    /\ uPc' = "raw" /\ uStdinOpen' = FALSE
    /\ UNCHANGED <<varsIn, varsW, uPend, uInPipe, varsCh, uOutput, uFed, Others>>

\* the caller waits on the raw child: std::process::Child::wait_with_output
RawWait ==
    /\ uPc = "raw"
    /\ uPc' = "collect"
    /\ UNCHANGED <<varsIn, varsW, uPend, uStdinOpen, uInPipe, varsCh, uOutput, uFed, Others>>

\* handle.stdin.writer(): the caller takes the BufWriter; the Handle is
\* partly moved, so neither child() nor wait_with_output() can be called
CallWriter ==
    /\ uPc = "ready"
    /\ uPc' = "tookwriter"
    /\ UNCHANGED <<varsIn, varsW, uPend, uStdinOpen, uInPipe, varsCh, uOutput, uFed, Others>>

\* the caller drops the BufWriter it took
DropWriter ==
    /\ uPc = "tookwriter"
    /\ uPc' = "nohandle" /\ uStdinOpen' = FALSE
    /\ UNCHANGED <<varsIn, varsW, uPend, uInPipe, varsCh, uOutput, uFed, Others>>

----------------------------------------------------------------------------
(* Execution strategies: run_commands_sequentially, run_commands_in_parallel *)

\* What a RecordWriter sends for a list of records: each record, then the
\* separator.
RECURSIVE Records(_, _)
Records(items, sep) ==
    IF items = <<>> THEN <<>>
    ELSE Records(SubSeq(items, 1, Len(items) - 1), sep) \o items[Len(items)] \o sep

\* capture_command_output up to the wait: the bytes the subprocess is fed
FeedBytes(options, key, values) ==
    Records(WriteItems(options, key, values), options.line_separator)

\* output.stdout of the shell command for the bytes it was fed
Output(cmd, fed) == IF cmd = "cat" THEN fed ELSE to_string(Len(fed))

\* handle.wait_with_output(): the Output of the finished subprocess
WaitOutput(cmd, fed, status) == [status |-> status, stdout |-> Output(cmd, fed)]

\* output.stdout
StdoutM(output) == IF output.status = 0 THEN output.stdout ELSE <<>>
Stdout(output) == output.stdout

\* expect / unwrap on the outcome of a step of capture_command_output
ExpectM(outcome, pc) == pc
Expect(outcome, pc) == IF outcome = "ok" THEN pc ELSE "panicked"

\* dropping the MutexGuard releases the lock its thread holds
UnlockM(lock, i) == lock
Unlock(lock, i) == IF lock = i THEN 0 ELSE lock

\* Report::report on a BTreeMap / HashMap: insert, replacing the key's report
InsertM(results, key, output) == results
Insert(results, key, output) ==
    {p \in results : p[1] # key} \cup {<<key, output>>}

\* BTreeMap::insert on a BTreeMap reporter: the entry goes to its key's place
BTreeInsertM(m, key, output) ==
    IF Occupied(m, key) THEN m
    ELSE SubSeq(m, 1, Slot(m, key)) \o <<[key |-> key, vals |-> output]>>
            \o SubSeq(m, Slot(m, key) + 1, Len(m))
BTreeInsert(m, key, output) ==
    IF Occupied(m, key)
    THEN [m EXCEPT ![IndexOf(m, key)].vals = output]
    ELSE SubSeq(m, 1, Slot(m, key)) \o <<[key |-> key, vals |-> output]>>
            \o SubSeq(m, Slot(m, key) + 1, Len(m))

\* for_each returns once every closure has run to its end
JoinedM(pc) == TRUE
Joined(pc) == \A i \in DOMAIN pc : pc[i] = "finished"

\* the i-th (key, value) pair map.iter() yields
IterItemM(map, i) == map[Len(map) + 1 - i]
IterItem(map, i) == map[i]

\* Mutex::lock: granted only when no guard is alive
LockFreeM(lock) == TRUE
LockFree(lock) == lock = 0

\* the (key, value) pair par_iter() hands to the closure of entry i
ParItemM(map, i) == map[1]
ParItem(map, i) == map[i]

ExitStatuses == {0, 1}
\* what run::command and the feeding of stdin can end with
SpawnOutcomes == {"ok", "spawn", "write"}
\* what wait_with_output can end with
WaitOutcomes == {"ok", "wait"}

RKeys == {<<97>>, <<98>>, <<99>>}
RValueLists == {<<<<97>>>>, <<<<97>>, <<98, 98>>>>}
RMaps ==
    UNION {{m \in [1..n -> [key : RKeys, vals : RValueLists]] :
                \A i, j \in 1..n : m[i].key = m[j].key => i = j} : n \in 0..MaxGroups}

RIdle ==
    /\ rMap = <<>> /\ rOpt = [line_separator |-> <<>>, only_group_names |-> FALSE]
    /\ rCmd = "cat" /\ rStatus = <<>> /\ sErr = "" /\ pErr = <<>>
    /\ sPc = "iter" /\ sIdx = 1 /\ sFed = <<>> /\ sOut = <<>> /\ sResults = {}
    /\ sSpawns = <<>> /\ sReports = <<>>
    /\ pPc = <<>> /\ pFed = <<>> /\ pOut = <<>> /\ pTmp = <<>> /\ pLock = 0
    /\ pResults = {} /\ pTree = <<>> /\ pSpawns = <<>> /\ pReports = <<>> /\ pReturned = FALSE

\* both runs are still to start
RStart ==
    /\ sErr = "" /\ pErr = [i \in 1..Len(rMap) |-> ""]
    /\ sPc = "iter" /\ sIdx = 1 /\ sFed = <<>> /\ sOut = <<>> /\ sResults = {}
    /\ sSpawns = [i \in 1..Len(rMap) |-> 0] /\ sReports = [i \in 1..Len(rMap) |-> 0]
    /\ pPc = [i \in 1..Len(rMap) |-> "queued"]
    /\ pFed = [i \in 1..Len(rMap) |-> <<>>] /\ pOut = [i \in 1..Len(rMap) |-> <<>>]
    /\ pTmp = [i \in 1..Len(rMap) |-> {}] /\ pLock = 0
    /\ pResults = {} /\ pTree = <<>> /\ pSpawns = [i \in 1..Len(rMap) |-> 0]
    /\ pReports = [i \in 1..Len(rMap) |-> 0] /\ pReturned = FALSE

\* any collection, options and command; every subprocess exits with 0
RInit ==
    /\ rMap \in RMaps
    /\ rOpt \in [line_separator : {<<32>>}, only_group_names : BOOLEAN]
    /\ rCmd \in {"cat", "count"}
    /\ rStatus = [i \in 1..Len(rMap) |-> 0]
    /\ RStart

\* any collection fed to cat; every subprocess exits with any status
ExitInit ==
    /\ rMap \in RMaps
    /\ rOpt = [line_separator |-> <<32>>, only_group_names |-> FALSE]
    /\ rCmd = "cat"
    /\ rStatus \in [1..Len(rMap) -> ExitStatuses]
    /\ RStart

NotRun == <<varsGC, varsGR, COUNTER, varsCT, varsU, varsM, varsMain, varsChild, varsRep>>

\* map.iter() yields the next entry; capture_command_output spawns and feeds
SeqSpawn ==
    /\ sPc = "iter" /\ sIdx <= Len(rMap)
    /\ \E outcome \in SpawnOutcomes :
          /\ sFed' = IF outcome = "ok"
                     THEN FeedBytes(rOpt, IterItem(rMap, sIdx).key, IterItem(rMap, sIdx).vals)
                     ELSE sFed
          /\ sErr' = IF outcome = "ok" THEN sErr ELSE outcome
          /\ sPc' = Expect(outcome, "fed")
    /\ sSpawns' = [sSpawns EXCEPT ![sIdx] = @ + 1]
    /\ UNCHANGED <<rMap, rOpt, rCmd, rStatus, pErr, sIdx, sOut, sResults, sReports, varsPar, NotRun>>

\* capture_command_output returns output.stdout
SeqCapture ==
    /\ sPc = "fed"
    /\ \E outcome \in WaitOutcomes :
          /\ sOut' = IF outcome = "ok"
                     THEN Stdout(WaitOutput(rCmd, sFed, rStatus[sIdx]))
                     ELSE sOut
          /\ sErr' = IF outcome = "ok" THEN sErr ELSE outcome
          /\ sPc' = Expect(outcome, "captured")
    /\ UNCHANGED <<rMap, rOpt, rCmd, rStatus, pErr, sIdx, sFed, sResults, sSpawns, sReports, varsPar, NotRun>>

\* results.report(key, result)
SeqReport ==
    /\ sPc = "captured"
    /\ sResults' = Insert(sResults, IterItem(rMap, sIdx).key, sOut)
    /\ sReports' = [sReports EXCEPT ![sIdx] = @ + 1]
    /\ sIdx' = sIdx + 1
    /\ sPc' = "iter"
    /\ UNCHANGED <<rMap, rOpt, rCmd, rStatus, sErr, pErr, sFed, sOut, sSpawns, varsPar, NotRun>>

\* the iterator is exhausted: run_commands_sequentially returns results
SeqReturn ==
    /\ sPc = "iter" /\ sIdx > Len(rMap)
    /\ sPc' = "returned"
    /\ UNCHANGED <<rMap, rOpt, rCmd, rStatus, sErr, pErr, sIdx, sFed, sOut, sResults, sSpawns, sReports,
                   varsPar, NotRun>>

Active == {i \in 1..Len(rMap) : pPc[i] \notin {"queued", "finished", "panicked"}}

\* a pool thread takes the closure of entry i; capture_command_output spawns
\* and feeds. The parallel run is started once the sequential one has returned.
ParSpawn(i) ==
    /\ sPc = "returned" /\ pPc[i] = "queued" /\ Cardinality(Active) < PoolSize
    /\ \E outcome \in SpawnOutcomes :
          /\ pFed' = IF outcome = "ok"
                     THEN [pFed EXCEPT ![i] =
                              FeedBytes(rOpt, ParItem(rMap, i).key, ParItem(rMap, i).vals)]
                     ELSE pFed
          /\ pErr' = IF outcome = "ok" THEN pErr ELSE [pErr EXCEPT ![i] = outcome]
          /\ pPc' = [pPc EXCEPT ![i] = Expect(outcome, "fed")]
    /\ pSpawns' = [pSpawns EXCEPT ![i] = @ + 1]
    /\ UNCHANGED <<rMap, rOpt, rCmd, rStatus, sErr, varsSeq, pOut, pTmp, pLock, pResults, pTree, pReports,
                   pReturned, NotRun>>

ParCapture(i) ==
    /\ pPc[i] = "fed"
    /\ \E outcome \in WaitOutcomes :
          /\ pOut' = IF outcome = "ok"
                     THEN [pOut EXCEPT ![i] =
                              Stdout(WaitOutput(rCmd, pFed[i], rStatus[i]))]
                     ELSE pOut
          /\ pErr' = IF outcome = "ok" THEN pErr ELSE [pErr EXCEPT ![i] = outcome]
          /\ pPc' = [pPc EXCEPT ![i] = Expect(outcome, "captured")]
    /\ UNCHANGED <<rMap, rOpt, rCmd, rStatus, sErr, varsSeq, pFed, pTmp, pLock, pResults, pTree, pSpawns,
                   pReports, pReturned, NotRun>>

\* Mutex<R>::report: self.lock().unwrap()
ParLock(i) ==
    /\ pPc[i] = "captured" /\ LockFree(pLock)
    /\ pLock' = i
    /\ pPc' = [pPc EXCEPT ![i] = "locked"]
    /\ UNCHANGED <<rMap, rOpt, rCmd, rStatus, sErr, pErr, varsSeq, pFed, pOut, pTmp, pResults, pTree, pSpawns,
                   pReports, pReturned, NotRun>>

\* .report(key, output) on the guarded map: insert reads the map ...
ParRead(i) ==
    /\ pPc[i] = "locked"
    /\ pTmp' = [pTmp EXCEPT ![i] = pResults]
    /\ pPc' = [pPc EXCEPT ![i] = "read"]
    /\ UNCHANGED <<rMap, rOpt, rCmd, rStatus, sErr, pErr, varsSeq, pFed, pOut, pLock, pResults, pTree, pSpawns,
                   pReports, pReturned, NotRun>>

\* ... and writes it back with the entry added
ParWrite(i) ==
    /\ pPc[i] = "read"
    /\ pResults' = Insert(pTmp[i], ParItem(rMap, i).key, pOut[i])
    /\ pTree' = BTreeInsert(pTree, ParItem(rMap, i).key, pOut[i])
    /\ pReports' = [pReports EXCEPT ![i] = @ + 1]
    /\ pPc' = [pPc EXCEPT ![i] = "written"]
    /\ UNCHANGED <<rMap, rOpt, rCmd, rStatus, sErr, pErr, varsSeq, pFed, pOut, pTmp, pLock, pSpawns,
                   pReturned, NotRun>>

\* the MutexGuard is dropped at the end of the statement
ParUnlock(i) ==
    /\ pPc[i] = "written"
    /\ pLock' = Unlock(pLock, i)
    /\ pPc' = [pPc EXCEPT ![i] = "finished"]
    /\ UNCHANGED <<rMap, rOpt, rCmd, rStatus, sErr, pErr, varsSeq, pFed, pOut, pTmp, pResults, pTree, pSpawns,
                   pReports, pReturned, NotRun>>

\* for_each has joined every closure: results.into_inner().unwrap()
ParReturn ==
    /\ sPc = "returned" /\ ~pReturned
    /\ Joined(pPc)
    /\ pReturned' = TRUE
    /\ UNCHANGED <<rMap, rOpt, rCmd, rStatus, sErr, pErr, varsSeq, pPc, pFed, pOut, pTmp, pLock, pResults, pTree,
                   pSpawns, pReports, NotRun>>

----------------------------------------------------------------------------
(* One call of a matcher of matchers::string.                              *)

\* captures.name(s): the patterns' group 1 is named "x" in the "run" pattern
\* (c(?P<x>d*)); no other group has a name.
CapName(re, caps, name) ==
    IF re.kind = "run" /\ name = "x" THEN CapGet(caps, 1) ELSE None

\* matchers::string::match_regex(string, regex, capture_group)
string_match_regex(string, regex, capture_group) ==
    LET c == Captures(regex, string)
    IN  IF c = None THEN None
        ELSE IF capture_group.kind = "Number" THEN CapGet(c[1], capture_group.n)
        ELSE CapName(regex, c[1], capture_group.s)

MStrings ==
    Tokens \cup {<<97, 46>>, <<97, 46, 98, 46, 97>>, <<97, 195, 169>>, <<195, 169, 97>>,
                 <<97, 98, 97>>}

MCaptureGroups ==
    {[kind |-> "Number", n |-> n] : n \in 0..2} \cup {[kind |-> "Name", s |-> s] : s \in {"x", "y"}}

Returned(v) == [panicked |-> FALSE, val |-> v]
Panicked == [panicked |-> TRUE, val |-> <<>>]

MIdle ==
    /\ mFn = "none" /\ mStr = <<>> /\ mN = 0 /\ mRe = [kind |-> "lit", c |-> 98, d |-> 97]
    /\ mCg = [kind |-> "Number", n |-> 0] /\ mRes = Returned(<<>>)

MInit ==
    /\ mFn = "none" /\ mStr \in MStrings /\ mN \in 0..MaxN /\ mRe \in Patterns
    /\ mCg \in MCaptureGroups /\ mRes = Returned(<<>>)

NotM == <<varsGC, varsGR, COUNTER, varsCT, varsU, varsRun, varsMain, varsChild, varsRep>>

CallFirstNChars ==
    /\ mFn = "none" /\ mFn' = "first"
    /\ mRes' = IF first_n_panics(mStr, mN) THEN Panicked
               ELSE Returned(match_first_n_chars(mStr, mN))
    /\ UNCHANGED <<mStr, mN, mRe, mCg, NotM>>

CallLastNChars ==
    /\ mFn = "none" /\ mFn' = "last"
    /\ mRes' = IF last_n_panics(mStr, mN) THEN Panicked
               ELSE Returned(match_last_n_chars(mStr, mN))
    /\ UNCHANGED <<mStr, mN, mRe, mCg, NotM>>

CallMatchRegex ==
    /\ mFn = "none" /\ mFn' = "regex"
    /\ mRes' = Returned(string_match_regex(mStr, mRe, mCg))
    /\ UNCHANGED <<mStr, mN, mRe, mCg, NotM>>

CallMatchFileExtension ==
    /\ mFn = "none" /\ mFn' = "ext"
    /\ mRes' = Returned(match_file_extension(mStr))
    /\ UNCHANGED <<mStr, mN, mRe, mCg, NotM>>

----------------------------------------------------------------------------
(* The program: build the groups, then run the command over them.          *)

\* str::parse::<usize>: decimal digits, with an optional leading '+'
Digits(s) == IF s # <<>> /\ s[1] = 43 THEN Tail(s) ELSE s
RECURSIVE Decimal(_)
Decimal(ds) ==
    IF ds = <<>> THEN 0
    ELSE Decimal(SubSeq(ds, 1, Len(ds) - 1)) * 10 + (ds[Len(ds)] - 48)
ParseUsizeM(s) == Some(0)
ParseUsize(s) ==
    IF Digits(s) # <<>> /\ \A i \in 1..Len(Digits(s)) : Digits(s)[i] \in 48..57
    THEN Some(Decimal(Digits(s)))
    ELSE None

\* Regex::new on the pattern texts b, b(a*), (a)|b and ( : the last one is
\* an unclosed group, a syntax error
RegexNew(pattern) ==
    IF pattern = <<98>> THEN Some([kind |-> "lit", c |-> 98, d |-> 97])
    ELSE IF pattern = <<98, 40, 97, 42, 41>> THEN Some([kind |-> "run", c |-> 98, d |-> 97])
    ELSE IF pattern = <<40, 97, 41, 124, 98>> THEN Some([kind |-> "alt", c |-> 98, d |-> 97])
    ELSE None

\* parse_from: the grouping specifier, or None when parsing panics
ParseGrouping(args) ==
    CASE args.opt = "first" ->
            IF ParseUsize(args.val) = None THEN None
            ELSE Some([kind |-> "FirstChars", n |-> ParseUsize(args.val)[1]])
      [] args.opt = "last" ->
            IF ParseUsize(args.val) = None THEN None
            ELSE Some([kind |-> "LastChars", n |-> ParseUsize(args.val)[1]])
      [] args.opt = "regex" ->
            IF RegexNew(args.val) = None THEN None
            ELSE Some([kind |-> "Regex", re |-> RegexNew(args.val)[1], cg |-> [number |-> 0]])
      [] args.opt = "ext" -> Some([kind |-> "FileExtension"])

\* The closure Runner::new builds for spec, applied to line
RunnerRun(map, spec, line) ==
    CASE spec.kind = "FirstChars" -> group_by_first_chars(map, line, spec.n)
      [] spec.kind = "LastChars" -> group_by_last_chars(map, line, spec.n)
      [] spec.kind = "Regex" -> group_by_regex(map, line, spec.re)
      [] spec.kind = "FileExtension" -> group_by_file_extension(map, line)

\* BufRead::split(byte): the pieces that end at byte; a last piece without
\* it counts when it is not empty
RECURSIVE SplitByte(_, _)
SplitByte(s, byte) ==
    IF s = <<>> THEN <<>>
    ELSE IF FirstIdx(s, {byte}) = 0 THEN <<s>>
    ELSE <<SubSeq(s, 1, FirstIdx(s, {byte}) - 1)>>
            \o SplitByte(SubSeq(s, FirstIdx(s, {byte}) + 1, Len(s)), byte)

\* BufRead::lines: as split on "\n", and a line that ended in "\n" also
\* loses a "\r" right before it
StripCr(l) == IF l # <<>> /\ l[Len(l)] = 13 THEN SubSeq(l, 1, Len(l) - 1) ELSE l
RECURSIVE Lines(_)
Lines(s) ==
    IF s = <<>> THEN <<>>
    ELSE IF FirstIdx(s, {10}) = 0 THEN <<s>>
    ELSE <<StripCr(SubSeq(s, 1, FirstIdx(s, {10}) - 1))>>
            \o Lines(SubSeq(s, FirstIdx(s, {10}) + 1, Len(s)))

\* char::is_whitespace on the bytes in use: tab, newline, carriage return, space
Whitespace == {9, 10, 13, 32}

\* str::split(pattern) for a one-byte pattern set: every piece, the empty
\* ones before, between and after the separators included
RECURSIVE SplitAll(_, _)
SplitAll(s, set) ==
    IF FirstIdx(s, set) = 0 THEN <<s>>
    ELSE <<SubSeq(s, 1, FirstIdx(s, set) - 1)>>
            \o SplitAll(SubSeq(s, FirstIdx(s, set) + 1, Len(s)), set)

\* line.split(char::is_whitespace), skipping the words that are all whitespace
RECURSIVE SelectWords(_)
SelectWords(ws) ==
    IF ws = <<>> THEN <<>>
    ELSE IF \A i \in 1..Len(Head(ws)) : Head(ws)[i] \in Whitespace
    THEN SelectWords(Tail(ws))
    ELSE <<Head(ws)>> \o SelectWords(Tail(ws))

RECURSIVE WordsOf(_)
WordsOf(lines) ==
    IF lines = <<>> THEN <<>>
    ELSE SelectWords(SplitAll(Head(lines), Whitespace)) \o WordsOf(Tail(lines))

\* The tokens build_groups runs through the runner, in order
Tokenize(sep, raw) ==
    CASE sep.kind = "Null" -> SplitByte(raw, 0)
      [] sep.kind = "Space" -> WordsOf(Lines(raw))
      [] sep.kind = "Line" -> Lines(raw)
      [] sep.kind = "Custom" -> SplitAll(raw, {sep.s})

\* the `?` on options.run_command.as_ref()
RequestedM(cmd) == TRUE
Requested(cmd) == cmd # None

NumTexts == {<<49>>, <<43, 49>>, <<120>>, <<>>}
PatternTexts == {<<98>>, <<98, 40, 97, 42, 41>>, <<40>>}
MainArgs ==
    {[opt |-> "first", val |-> v] : v \in NumTexts}
    \cup {[opt |-> "last", val |-> v] : v \in {<<49>>, <<49, 97>>}}
    \cup {[opt |-> "regex", val |-> v] : v \in PatternTexts}
    \cup {[opt |-> "ext", val |-> <<>>]}

InputSeparators ==
    {[kind |-> "Line"], [kind |-> "Space"], [kind |-> "Null"], [kind |-> "Custom", s |-> 90]}
LineInputs == UNION {[1..n -> {97, 98, 10}] : n \in 0..MaxInput}
RawInputs == UNION {[1..n -> {97, 10, 13, 32, 0, 90}] : n \in 0..MaxInput}

MainIdle ==
    /\ gPc = "parse" /\ gArgs = [opt |-> "ext", val |-> <<>>] /\ gSpec = None
    /\ gCompiles = 0 /\ gSep = [kind |-> "Line"] /\ gRaw = <<>>
    /\ gCmd = None /\ gParallel = TRUE /\ gShell = TRUE
    /\ gInput = <<>> /\ gRead = 0 /\ gCalls = <<>> /\ gMap = <<>>
    /\ gLookups = 0 /\ gSpawns = 0 /\ gResult = None

MainStart ==
    /\ gPc = "parse" /\ gSpec = None /\ gCompiles = 0
    /\ gInput = <<>> /\ gRead = 0 /\ gCalls = <<>> /\ gMap = <<>>
    /\ gLookups = 0 /\ gSpawns = 0 /\ gResult = None

\* the program starts: lines of input, any grouping option, any command
MainInit ==
    /\ MainStart
    /\ gArgs \in MainArgs /\ gSep = [kind |-> "Line"] /\ gRaw \in LineInputs
    /\ gCmd \in {None, Some("cat")} /\ gParallel \in BOOLEAN /\ gShell \in BOOLEAN

\* the program starts: any input bytes and separator, grouping by -f 1
BuildInit ==
    /\ MainStart
    /\ gArgs = [opt |-> "first", val |-> <<49>>] /\ gSep \in InputSeparators
    /\ gRaw \in RawInputs
    /\ gCmd = None /\ gParallel = TRUE /\ gShell = TRUE

NotMain == <<varsGC, varsGR, COUNTER, varsCT, varsU, varsRun, varsM, varsChild, varsRep>>

\* parse: the grouping option is turned into a GroupingSpecifier; a bad
\* number or pattern panics
ParseArgs ==
    /\ gPc = "parse"
    /\ gCompiles' = IF gArgs.opt = "regex" THEN gCompiles + 1 ELSE gCompiles
    /\ gSpec' = ParseGrouping(gArgs)
    /\ gPc' = IF ParseGrouping(gArgs) = None THEN "panicked" ELSE "parsed"
    /\ UNCHANGED <<varsOpt, gInput, gRead, gCalls, gMap, gLookups, gSpawns, gResult,
                   NotMain>>

\* build_groups is entered: Runner::new, and the input is split on the separator
BuildGroupsEnter ==
    /\ gPc = "parsed"
    /\ gInput' = Tokenize(gSep, gRaw)
    /\ gPc' = "input"
    /\ UNCHANGED <<varsOpt, gSpec, gCompiles, gRead, gCalls, gMap, gLookups, gSpawns,
                   gResult, NotMain>>

\* build_groups: the next token is read and run through the runner
BuildGroupsToken ==
    /\ gPc = "input" /\ gInput # <<>>
    /\ gMap' = RunnerRun(gMap, gSpec[1], Head(gInput))
    /\ gCalls' = Append(gCalls, Head(gInput))
    /\ gInput' = Tail(gInput) /\ gRead' = gRead + 1
    /\ UNCHANGED <<gPc, varsOpt, gSpec, gCompiles, gLookups, gSpawns, gResult, NotMain>>

\* build_groups returns at the end of the input
BuildGroupsReturn ==
    /\ gPc = "input" /\ gInput = <<>>
    /\ gPc' = "output"
    /\ UNCHANGED <<varsOpt, gSpec, gCompiles, gInput, gRead, gCalls, gMap, gLookups,
                   gSpawns, gResult, NotMain>>

\* run_command with no command requested: returns None
RunCommandNone ==
    /\ gPc = "output" /\ ~Requested(gCmd)
    /\ gResult' = None
    /\ gPc' = "done"
    /\ UNCHANGED <<varsOpt, gSpec, gCompiles, gInput, gRead, gCalls, gMap, gLookups,
                   gSpawns, NotMain>>

\* run_command, current_shell: SHELL is not set, the process exits with 1
CurrentShellMissing ==
    /\ gPc = "output" /\ Requested(gCmd) /\ ~gShell
    /\ gLookups' = gLookups + 1
    /\ gPc' = "failed"
    /\ UNCHANGED <<varsOpt, gSpec, gCompiles, gInput, gRead, gCalls, gMap, gSpawns,
                   gResult, NotMain>>

\* run_command: SHELL is set, one command is run for each group by the
\* strategy that parallel selects, and the reporter is returned
RunCommandSome ==
    /\ gPc = "output" /\ Requested(gCmd) /\ gShell
    /\ gLookups' = gLookups + 1
    /\ gSpawns' = gSpawns + Len(gMap)
    /\ gResult' = Some({gMap[i].key : i \in 1..Len(gMap)})
    /\ gPc' = "done"
    /\ UNCHANGED <<varsOpt, gSpec, gCompiles, gInput, gRead, gCalls, gMap, NotMain>>

----------------------------------------------------------------------------
(* statistics_for                                                          *)

\* map.iter().map(|(_, items)| items.len()).collect()
GroupSizes(map) == [i \in 1..Len(map) |-> Len(map[i].vals)]

\* sort_unstable: ascending
RECURSIVE SortInsert(_, _)
SortInsert(sorted, x) ==
    IF sorted = <<>> THEN <<x>>
    ELSE IF x <= Head(sorted) THEN <<x>> \o sorted
    ELSE <<Head(sorted)>> \o SortInsert(Tail(sorted), x)
RECURSIVE SortUnstable(_)
SortUnstable(sizes) ==
    IF sizes = <<>> THEN <<>>
    ELSE SortInsert(SortUnstable(Tail(sizes)), Head(sizes))

\* slice.get(index), index counted from 0
Get(slice, index) == IF index < Len(slice) THEN Some(slice[index + 1]) ELSE None

RECURSIVE Sum(_)
Sum(sizes) == IF sizes = <<>> THEN 0 ELSE Head(sizes) + Sum(Tail(sizes))

\* format!("{:.2}", total_items as f64 / total_groups as f64), in hundredths
Average(total_items, total_groups) ==
    IF total_groups = 0 THEN 0
    ELSE (200 * total_items + total_groups) \div (2 * total_groups)

\* the numbers statistics_for formats
statistics_for(map) ==
    [total_items |-> Sum(SortUnstable(GroupSizes(map))),
     total_groups |-> Len(SortUnstable(GroupSizes(map))),
     group_size_min |->
        IF GroupSizes(map) = <<>> THEN 0 ELSE SortUnstable(GroupSizes(map))[1],
     group_size_max |->
        IF GroupSizes(map) = <<>> THEN 0 ELSE SortUnstable(GroupSizes(map))[Len(map)],
     group_size_median |->
        UnwrapOr(Get(SortUnstable(GroupSizes(map)), Len(GroupSizes(map)) \div 2), 0),
     group_size_average |->
        Average(Sum(GroupSizes(map)), Len(GroupSizes(map)))]

\* statistics_for(&map) on the BTreeMap collection
StatisticsFor ==
    /\ gcStats' = Some([sizes |-> GroupSizes(btree), stats |-> statistics_for(btree)])
    /\ UNCHANGED <<btree, hmap, gcLog, varsGR, COUNTER, varsCT, varsU, varsRun, varsM,
                   varsMain, varsChild, varsRep>>

----------------------------------------------------------------------------
(* A Child on its own: stdin(), stdout(), wait_with_output()                *)

\* Option::take: what is left in the field
TakeM(opt) == opt
Take(opt) == None

ChildIdle ==
    /\ cPc = "alive" /\ cStdin = None /\ cStdout = None /\ cWriters = 0 /\ cReaders = 0
    /\ cCalls = [stdin |-> 0, stdout |-> 0] /\ cBuf = <<>>

\* the child as run::command spawns it (both streams piped) or as
\* MockChild::new builds it
ChildInit ==
    /\ cPc = "alive" /\ cStdin \in {Some("pipe"), Some("vec")}
    /\ cStdout \in {Some(<<>>), Some(<<97>>), Some(<<97, 10>>)}
    /\ cWriters = 0 /\ cReaders = 0
    /\ cCalls = [stdin |-> 0, stdout |-> 0] /\ cBuf = <<>>

NotChild == <<varsGC, varsGR, COUNTER, varsCT, varsU, varsRun, varsM, varsMain, varsRep>>

\* child.stdin(): self.stdin.take().unwrap()
ChildStdin ==
    /\ cPc = "alive"
    /\ cCalls' = [cCalls EXCEPT !.stdin = @ + 1]
    /\ cStdin' = Take(cStdin)
    /\ IF cStdin = None
       THEN cPc' = "panicked" /\ UNCHANGED cWriters
       ELSE cWriters' = cWriters + 1 /\ UNCHANGED cPc
    /\ UNCHANGED <<cStdout, cReaders, cBuf, NotChild>>

\* child.stdout(): self.stdout.take().unwrap()
ChildStdout ==
    /\ cPc = "alive"
    /\ cCalls' = [cCalls EXCEPT !.stdout = @ + 1]
    /\ cStdout' = Take(cStdout)
    /\ IF cStdout = None
       THEN cPc' = "panicked" /\ UNCHANGED cReaders
       ELSE cReaders' = cReaders + 1 /\ UNCHANGED cPc
    /\ UNCHANGED <<cStdin, cWriters, cBuf, NotChild>>

\* the caller writes a byte to the stdin handle it holds
ChildStdinWrite ==
    /\ cWriters > 0 /\ Len(cBuf) < BufCap
    /\ \E b \in {97, 98, 10} : cBuf' = Append(cBuf, b)
    /\ UNCHANGED <<cPc, cStdin, cStdout, cWriters, cReaders, cCalls, NotChild>>

\* child.wait_with_output(): the child is consumed
ChildWaitWithOutput ==
    /\ cPc = "alive"
    /\ cPc' = "waited"
    /\ UNCHANGED <<cStdin, cStdout, cWriters, cReaders, cCalls, cBuf, NotChild>>

----------------------------------------------------------------------------
(* Reporters: Report for BTreeMap and for HashMap                           *)

RepKeys == {<<97>>, <<98>>}
RepOutputs == {<<>>, <<120>>}

RepIdle == repTree = <<>> /\ repHash = {} /\ repLogT = <<>> /\ repLogH = <<>>

NotRep == <<varsGC, varsGR, COUNTER, varsCT, varsU, varsRun, varsM, varsMain, varsChild>>

\* BTreeMap::report(key, output): self.insert(key, output)
ReportBTreeMap(key, output) ==
    /\ Len(repLogT) < MaxReports
    /\ repTree' = BTreeInsert(repTree, key, output)
    /\ repLogT' = Append(repLogT, <<key, output>>)
    /\ UNCHANGED <<repHash, repLogH, NotRep>>

\* HashMap::report(key, output): self.insert(key, output)
ReportHashMap(key, output) ==
    /\ Len(repLogH) < MaxReports
    /\ repHash' = Insert(repHash, key, output)
    /\ repLogH' = Append(repLogH, <<key, output>>)
    /\ UNCHANGED <<repTree, repLogT, NotRep>>

\* Report::get
BTreeGet(m, key) == IF Occupied(m, key) THEN Some(m[IndexOf(m, key)].vals) ELSE None
HashGet(h, key) ==
    IF \E p \in h : p[1] = key THEN Some((CHOOSE p \in h : p[1] = key)[2]) ELSE None

----------------------------------------------------------------------------
(* Specifications.                                                         *)

GRIdle ==
    grMap = <<>> /\ grSpec = [kind |-> "Counter"] /\ grPc = "running" /\ grLog = <<>>
CTIdle == ctPc = <<>> /\ ctKey = <<>> /\ ctMap = <<>> /\ ctLog = <<>>

InitGC == GCInit /\ GRIdle /\ COUNTER = 0 /\ CTIdle /\ UIdle /\ RIdle /\ MIdle /\ MainIdle /\ ChildIdle /\ RepIdle
NextGC ==
    \/ \E k \in GCKeys, v \in GCVals : Add(k, v)
    \/ StatisticsFor
SpecGC == InitGC /\ [][NextGC]_vars

InitGR == GRInit /\ GCInit /\ COUNTER = 0 /\ CTIdle /\ UIdle /\ RIdle /\ MIdle /\ MainIdle /\ ChildIdle /\ RepIdle
NextGR ==
    \E s \in Tokens :
        \/ RunFirstChars(s)
        \/ RunLastChars(s)
        \/ RunRegex(s)
        \/ RunFileExtension(s)
        \/ RunCounter(s)
SpecGR == InitGR /\ [][NextGR]_vars

InitCT == CTInit /\ COUNTER = 0 /\ GCInit /\ GRIdle /\ UIdle /\ RIdle /\ MIdle /\ MainIdle /\ ChildIdle /\ RepIdle
NextCT ==
    \E t \in Threads :
        \/ CtMatchCounter(t)
        \/ CtGroupCall(t)
        \/ \E line \in CTLines : CtGroupAdd(t, line)
SpecCT == InitCT /\ [][NextCT]_vars

\* capture_command_output over one group
InitUnit == UInit /\ GCInit /\ GRIdle /\ COUNTER = 0 /\ CTIdle /\ RIdle /\ MIdle /\ MainIdle /\ ChildIdle /\ RepIdle
NextUnit ==
    \/ Spawn
    \/ CaptureFeed
    \/ RecordWrite
    \/ Flush
    \/ WriteReturn
    \/ PipeAccept
    \/ ChildRead
    \/ ChildEof
    \/ ChildWrite
    \/ ChildExit
    \/ CaptureWait
    \/ WaitChild
    \/ Collect
    \/ Reap
SpecUnit == InitUnit /\ [][NextUnit]_vars

\* any caller of one Handle
InitHandle == HInit /\ GCInit /\ GRIdle /\ COUNTER = 0 /\ CTIdle /\ RIdle /\ MIdle /\ MainIdle /\ ChildIdle /\ RepIdle
NextHandle ==
    \/ Spawn
    \/ \E v \in UValues : CallWrite(v)
    \/ \E vs \in HandleLists : CallWriteAll(vs)
    \/ CallChild
    \/ RawWait
    \/ CallWriter
    \/ DropWriter
    \/ RecordWrite
    \/ Flush
    \/ WriteReturn
    \/ PipeAccept
    \/ ChildRead
    \/ ChildEof
    \/ ChildWrite
    \/ ChildExit
    \/ WaitDrop
    \/ WaitChild
    \/ Collect
    \/ Reap
SpecHandle == InitHandle /\ [][NextHandle]_vars

\* both execution strategies over one grouped collection
InitRun == RInit /\ GCInit /\ GRIdle /\ COUNTER = 0 /\ CTIdle /\ UIdle /\ MIdle /\ MainIdle /\ ChildIdle /\ RepIdle
NextRun ==
    \/ SeqSpawn
    \/ SeqCapture
    \/ SeqReport
    \/ SeqReturn
    \/ \E i \in 1..Len(rMap) : ParSpawn(i)
    \/ \E i \in 1..Len(rMap) : ParCapture(i)
    \/ \E i \in 1..Len(rMap) : ParLock(i)
    \/ \E i \in 1..Len(rMap) : ParRead(i)
    \/ \E i \in 1..Len(rMap) : ParWrite(i)
    \/ \E i \in 1..Len(rMap) : ParUnlock(i)
    \/ ParReturn
SpecRun == InitRun /\ [][NextRun]_vars

\* both execution strategies, the subprocesses ending with any exit status
InitExit == ExitInit /\ GCInit /\ GRIdle /\ COUNTER = 0 /\ CTIdle /\ UIdle /\ MIdle /\ MainIdle /\ ChildIdle /\ RepIdle
SpecExit == InitExit /\ [][NextRun]_vars

\* one matcher call on drawn arguments
InitMatch == MInit /\ GCInit /\ GRIdle /\ COUNTER = 0 /\ CTIdle /\ UIdle /\ RIdle /\ MainIdle /\ ChildIdle /\ RepIdle
NextMatch ==
    \/ CallFirstNChars
    \/ CallLastNChars
    \/ CallMatchRegex
    \/ CallMatchFileExtension
SpecMatch == InitMatch /\ [][NextMatch]_vars

\* one run of the program
InitMain == MainInit /\ GCInit /\ GRIdle /\ COUNTER = 0 /\ CTIdle /\ UIdle /\ RIdle /\ MIdle /\ ChildIdle /\ RepIdle
NextMain ==
    \/ ParseArgs
    \/ BuildGroupsEnter
    \/ BuildGroupsToken
    \/ BuildGroupsReturn
    \/ RunCommandNone
    \/ CurrentShellMissing
    \/ RunCommandSome
SpecMain == InitMain /\ [][NextMain]_vars

\* a Child and the calls made on it
InitChild ==
    ChildInit /\ GCInit /\ GRIdle /\ COUNTER = 0 /\ CTIdle /\ UIdle /\ RIdle /\ MIdle /\ MainIdle
        /\ RepIdle
NextChild ==
    \/ ChildStdin
    \/ ChildStdout
    \/ ChildStdinWrite
    \/ ChildWaitWithOutput
SpecChild == InitChild /\ [][NextChild]_vars

\* report calls on an empty BTreeMap and an empty HashMap
InitReport ==
    RepIdle /\ GCInit /\ GRIdle /\ COUNTER = 0 /\ CTIdle /\ UIdle /\ RIdle /\ MIdle /\ MainIdle
        /\ ChildIdle
NextReport ==
    \/ \E key \in RepKeys, output \in RepOutputs : ReportBTreeMap(key, output)
    \/ \E key \in RepKeys, output \in RepOutputs : ReportHashMap(key, output)
SpecReport == InitReport /\ [][NextReport]_vars

\* build_groups over any input bytes and separator
InitBuild == BuildInit /\ GCInit /\ GRIdle /\ COUNTER = 0 /\ CTIdle /\ UIdle /\ RIdle /\ MIdle /\ ChildIdle /\ RepIdle
NextBuild ==
    \/ ParseArgs
    \/ BuildGroupsEnter
    \/ BuildGroupsToken
    \/ BuildGroupsReturn
    \/ RunCommandNone
SpecBuild == InitBuild /\ [][NextBuild]_vars

----------------------------------------------------------------------------
(* Claims about the grouped collections.                                   *)

\* The values added under k, in the order of the add calls.
RECURSIVE AddedUnder(_, _)
AddedUnder(log, k) ==
    IF log = <<>> THEN <<>>
    ELSE IF Head(log)[1] = k
         THEN <<Head(log)[2]>> \o AddedUnder(Tail(log), k)
         ELSE AddedUnder(Tail(log), k)

KeysAdded(log) == {log[i][1] : i \in 1..Len(log)}

Expected(log, k) == IF k \in KeysAdded(log) THEN Some(AddedUnder(log, k)) ELSE None

\* C5: after any sequence of add(k, v) calls on an empty BTreeMap or HashMap,
\* get(k) is exactly the values added under k in the order they were added,
\* and get of a key never added is None.
C5_GetRoundTrip ==
    \A k \in GCKeys :
        /\ MapGet(btree, k) = Expected(gcLog, k)
        /\ MapGet(hmap, k) = Expected(gcLog, k)

C5_Witness ==
    /\ \E k \in GCKeys : Len(AddedUnder(gcLog, k)) >= 2
                         /\ AddedUnder(gcLog, k)[1] # AddedUnder(gcLog, k)[2]
    /\ Cardinality(KeysAdded(gcLog)) >= 2
    /\ \E k \in GCKeys : k \notin KeysAdded(gcLog) /\ MapGet(btree, k) = None

IterOnce(it, log) ==
    /\ \A i, j \in 1..Len(it) : i # j => it[i][1] # it[j][1]
    /\ {it[i][1] : i \in 1..Len(it)} = KeysAdded(log)
    /\ \A i \in 1..Len(it) : it[i][2] = AddedUnder(log, it[i][1])

\* C6: after any sequence of add calls, iter() yields every distinct key that
\* was added exactly once, each with that key's complete list of values.
C6_IterEveryKeyOnce ==
    /\ IterOnce(MapIter(btree), gcLog)
    /\ IterOnce(MapIter(hmap), gcLog)

C6_Witness ==
    /\ Len(gcLog) = MaxAdds
    /\ Cardinality(KeysAdded(gcLog)) = 2
    /\ Len(MapIter(hmap)) = 2 /\ Len(MapIter(btree)) = 2
    /\ MapIter(hmap) # MapIter(btree)

----------------------------------------------------------------------------
(* Claims about the groupers and the counter.                              *)

\* The output of the matcher that spec selects, for token t: a string for the
\* first/last n characters, an Option for a regex or a file extension.
MatcherOut(spec, t) ==
    CASE spec.kind = "FirstChars" -> match_first_n_chars(t, spec.n)
      [] spec.kind = "LastChars" -> match_last_n_chars(t, spec.n)
      [] spec.kind = "Regex" -> match_regex(t, spec.re)
      [] spec.kind = "FileExtension" -> match_file_extension(t)

\* The key a token is filed under: an absent matcher output becomes "".
GroupKey(spec, t) ==
    IF spec.kind \in {"Regex", "FileExtension"}
    THEN UnwrapOr(MatcherOut(spec, t), <<>>)
    ELSE MatcherOut(spec, t)

SameGroup(m, t1, t2) ==
    \E i \in 1..Len(m) : t1 \in Range(m[i].vals) /\ t2 \in Range(m[i].vals)

AllSingletons(m) == \A i \in 1..Len(m) : Len(m[i].vals) = 1

PendingKeys == {ctKey[t][1] : t \in {u \in Threads : ctPc[u] = "add"}}
FiledKeys(t) == {ctMap[t][i].key : i \in 1..Len(ctMap[t])}

\* C9: match_counter returns 0 on its first call and each later call returns
\* one more than the call before it, over all callers, threads, Runners and
\* collections; no two calls return the same value, so no key is filed twice.
C9_CounterSequence ==
    /\ \A i \in 1..Len(ctLog) : ctLog[i] = i - 1
    /\ \A t \in Threads : AllSingletons(ctMap[t])
    /\ \A t, u \in Threads : t # u => FiledKeys(t) \cap FiledKeys(u) = {}
    /\ \A t \in Threads :
        ctPc[t] = "add" =>
            \A u \in Threads : to_string(ctKey[t][1]) \notin FiledKeys(u)
    /\ \A t, u \in Threads :
        (t # u /\ ctPc[t] = "add" /\ ctPc[u] = "add") => ctKey[t] # ctKey[u]

\* Two Runner threads are both between their match_counter call and their
\* add, after a direct call and an earlier filed key.
C9_Witness ==
    /\ Len(ctLog) = MaxCalls
    /\ Cardinality(PendingKeys) = 2
    /\ ctKey[1] # None
    /\ \E t \in Threads : FiledKeys(t) # {}

----------------------------------------------------------------------------
(* Claims about one subprocess.                                            *)

\* C3: the per-group unit of work (feed the group through handle.stdin, then
\* Handle::wait_with_output) always completes and never hangs, with zero
\* input and with input larger than the pipes hold.
C3_UnitNeverHangs == uPc = "done" \/ ENABLED NextUnit

\* The zero-input half of C3: an echoing child fed nothing is waited for.
C3_ZeroInputDone == uPc = "done" /\ uProg = "cat" /\ uWrites = 1 /\ uFed = <<>>

RECURSIVE EachFollowedBy(_, _)
EachFollowedBy(values, sep) ==
    IF values = <<>> THEN <<>>
    ELSE Head(values) \o sep \o EachFollowedBy(Tail(values), sep)

ExpectedFeed ==
    IF uOpt.only_group_names
    THEN uKey \o uOpt.line_separator
    ELSE EachFollowedBy(uVals, uOpt.line_separator)

IsPrefix(a, b) == Len(a) <= Len(b) /\ a = SubSeq(b, 1, Len(a))

\* C8: capture_command_output writes to the subprocess's stdin exactly the
\* key followed by one separator when only_group_names is set, and otherwise
\* every value in insertion order, each followed by one separator; an
\* echoing child returns exactly those bytes.
C8_FeedExact ==
    /\ IsPrefix(uFed, ExpectedFeed)
    /\ (uWrites = 1 /\ uPc # "writing") => uFed = ExpectedFeed
    /\ (uPc = "done" /\ uProg = "cat") => uOutput = ExpectedFeed

C8_Witness ==
    /\ uPc = "done" /\ uProg = "cat" /\ ~uOpt.only_group_names
    /\ Len(uVals) = 2 /\ uVals[1] # uVals[2]
    /\ uOutput = uVals[1] \o uOpt.line_separator \o uVals[2] \o uOpt.line_separator

----------------------------------------------------------------------------
(* Claims about the execution strategies.                                  *)

Entries == 1..Len(rMap)

\* C1: over the same grouped collection and options, from an empty reporter,
\* run_commands_sequentially and run_commands_in_parallel return the same
\* set of key/output pairs, whatever order the parallel workers finish in.
C1_SameMap == (sPc = "returned" /\ pReturned) => sResults = pResults

\* both have returned, and the second entry's closure reported before the first's
C1_Witness ==
    /\ sPc = "returned" /\ pReturned /\ Len(rMap) = 2
    /\ sResults = pResults /\ Cardinality(pResults) = 2
    /\ pTmp[1] # {} /\ rMap[1].vals # rMap[2].vals

\* what the subprocess of entry i must be fed, and must answer
ExpectedOutput(i) ==
    LET fed == IF rOpt.only_group_names
               THEN rMap[i].key \o rOpt.line_separator
               ELSE EachFollowedBy(rMap[i].vals, rOpt.line_separator)
    IN  IF rCmd = "cat" THEN fed ELSE to_string(Len(fed))

OncePerKey(results, spawns, reports) ==
    /\ {p[1] : p \in results} = {rMap[i].key : i \in Entries}
    /\ \A i \in Entries :
        /\ spawns[i] = 1 /\ reports[i] = 1
        /\ <<rMap[i].key, ExpectedOutput(i)>> \in results

\* C2: when a strategy returns, the result's keys are the collection's keys,
\* and for each key one subprocess was spawned and report was called once,
\* with the output of the subprocess fed that key's group.
C2_OncePerKey ==
    /\ sPc = "returned" => OncePerKey(sResults, sSpawns, sReports)
    /\ pReturned => OncePerKey(pResults, pSpawns, pReports)
    /\ \A i \in Entries : sSpawns[i] <= 1 /\ sReports[i] <= 1
                          /\ pSpawns[i] <= 1 /\ pReports[i] <= 1

C2_Witness ==
    /\ pReturned /\ Len(rMap) = 2 /\ rOpt.only_group_names /\ rCmd = "count"
    /\ \A i \in Entries : pSpawns[i] = 1 /\ sReports[i] = 1

Reported == {i \in Entries : pPc[i] \in {"written", "finished"}}

\* C10: in the parallel strategy at most one worker is inside report at a
\* time, the Mutex is held by a worker that is, the reporter holds exactly
\* the pairs of the workers that have reported, and so every worker's
\* (key, output) pair is in the map when all workers have finished.
C10_NoReportLost ==
    /\ Cardinality({i \in Entries : pPc[i] \in {"locked", "read", "written"}}) <= 1
    /\ pLock # 0 => pPc[pLock] \in {"locked", "read", "written"}
    /\ pResults = {<<rMap[i].key, pOut[i]>> : i \in Reported}
    /\ (\A i \in Entries : pPc[i] = "finished") =>
            \A i \in Entries : <<rMap[i].key, pOut[i]>> \in pResults

\* one worker waits for the Mutex while the other is inside insert
C10_Witness ==
    /\ Len(rMap) = 2 /\ pPc[1] = "captured" /\ pPc[2] = "read" /\ pLock = 2

\* C11: run_commands_in_parallel returns the reporter only after every
\* group's closure has finished its subprocess and reported: once it has
\* returned, no closure is queued, running or holding the Mutex.
C11_ReturnAfterJoin ==
    pReturned =>
        /\ \A i \in Entries : pPc[i] = "finished" /\ pSpawns[i] = 1 /\ pReports[i] = 1
        /\ pLock = 0

C11_Witness == pReturned /\ Len(rMap) = 2 /\ rCmd = "count" /\ pTmp[2] # {}

IsSorted(m) == \A i, j \in 1..Len(m) : i < j => StrLess(m[i].key, m[j].key)

\* C12: run_commands_sequentially spawns the subprocess of a group only
\* after the groups before it have been reported, and reports the groups in
\* the collection's iteration order: over a BTreeMap, every key already
\* reported is smaller than every key still to come.
C12_OneAtATimeInOrder ==
    /\ \A i \in Entries : sSpawns[i] = 1 => \A j \in 1..(i - 1) : sReports[j] = 1
    /\ Cardinality({i \in Entries : sSpawns[i] = 1 /\ sReports[i] = 0}) <= 1
    /\ {p[1] : p \in sResults} = {rMap[i].key : i \in 1..Cardinality(sResults)}
    /\ IsSorted(rMap) =>
        \A i \in Entries : rMap[i].key \notin {p[1] : p \in sResults} =>
            \A p \in sResults : StrLess(p[1], rMap[i].key)

C12_Witness ==
    /\ Len(rMap) = 2 /\ IsSorted(rMap) /\ sPc = "fed" /\ sIdx = 2
    /\ Cardinality(sResults) = 1

\* C13: with a BTreeMap reporter, the map run_commands_in_parallel builds
\* enumerates its keys in ascending order at every point of the run and on
\* return, whatever order the closures reported in.
C13_ReporterKeySorted ==
    /\ IsSorted(pTree)
    /\ {<<e.key, e.vals>> : e \in Range(pTree)} = pResults

\* the larger key was reported first
C13_Witness ==
    /\ pReturned /\ Len(pTree) = 2
    /\ \E i, j \in Entries : StrLess(rMap[i].key, rMap[j].key) /\ pTmp[i] # {} /\ pTmp[j] = {}

----------------------------------------------------------------------------
(* Claims about the matchers.                                              *)

IsSuffix(a, b) == Len(a) <= Len(b) /\ a = SubSeq(b, Len(b) - Len(a) + 1, Len(b))
Min(a, b) == IF a <= b THEN a ELSE b

\* C14: for every string s and every n, match_first_n_chars(s, n) is a
\* prefix of s and match_last_n_chars(s, n) a suffix of s, of length at most
\* min(n, len(s)); n = 0 or empty s gives "", and n >= len(s) gives s.
C14_PrefixSuffixBounded ==
    mFn \in {"first", "last"} =>
        /\ ~mRes.panicked
        /\ IF mFn = "first" THEN IsPrefix(mRes.val, mStr) ELSE IsSuffix(mRes.val, mStr)
        /\ Len(mRes.val) <= Min(mN, Len(mStr))
        /\ (mN = 0 \/ mStr = <<>>) => mRes.val = <<>>
        /\ mN >= Len(mStr) => mRes.val = mStr

\* the properties on an ASCII string cut in the middle
C14_Witness ==
    /\ mFn = "last" /\ mStr = <<97, 46, 98>> /\ mN = 2 /\ mRes = Returned(<<46, 98>>)

\* the byte offsets at which a character of s starts
CharStarts(s) == {i \in 1..Len(s) : s[i] \notin 128..191}

FirstChars(s, n) ==
    IF n >= Cardinality(CharStarts(s)) THEN s
    ELSE LET k == CHOOSE i \in CharStarts(s) :
                    Cardinality({j \in CharStarts(s) : j < i}) = n
         IN  SubSeq(s, 1, k - 1)

LastChars(s, n) ==
    IF n >= Cardinality(CharStarts(s)) THEN s
    ELSE IF n = 0 THEN <<>>
    ELSE LET k == CHOOSE i \in CharStarts(s) :
                    Cardinality({j \in CharStarts(s) : j >= i}) = n
         IN  SubSeq(s, k, Len(s))

\* C15: match_first_n_chars and match_last_n_chars count characters, not
\* bytes: on a string with multi-byte characters they return its first
\* (last) n characters and never fail.
C15_CountsCharacters ==
    /\ mFn = "first" => mRes = Returned(FirstChars(mStr, mN))
    /\ mFn = "last" => mRes = Returned(LastChars(mStr, mN))

\* on ASCII input bytes and characters agree
C15_Witness ==
    /\ mFn = "first" /\ mStr = <<97, 98, 97>> /\ mN = 2 /\ mRes = Returned(<<97, 98>>)

\* whether the group capture_group asks for took part in the match caps
Participated(re, caps, cg) ==
    IF cg.kind = "Number" THEN CapGet(caps, cg.n) # None ELSE CapName(re, caps, cg.s) # None

\* C16: match_regex(s, pattern, capture_group) is absent when the pattern
\* does not match; when it matches it is the text of the requested group,
\* and the text of the whole match when group 0 is requested or the
\* requested group did not take part.
C16_GroupOrWholeMatch ==
    mFn = "regex" =>
        LET c == Captures(mRe, mStr)
        IN  mRes.val =
                IF c = None THEN None
                ELSE IF Participated(mRe, c[1], mCg)
                THEN (IF mCg.kind = "Number" THEN CapGet(c[1], mCg.n)
                      ELSE CapName(mRe, c[1], mCg.s))
                ELSE c[1][1]

\* the requested group took part and its text is returned
C16_Witness ==
    /\ mFn = "regex" /\ mRe.kind = "run" /\ mStr = <<98, 97>>
    /\ mCg = [kind |-> "Name", s |-> "x"] /\ mRes = Returned(Some(<<97>>))

Dots(s) == {i \in 1..Len(s) : s[i] = 46}
LastDot(s) == CHOOSE i \in Dots(s) : \A j \in Dots(s) : j <= i

\* C18: match_file_extension(s) is the non-empty text after the last '.' of
\* s, and is absent exactly when s has no '.', or its last '.' is its first
\* or its last character.
C18_FileExtension ==
    mFn = "ext" =>
        /\ ~mRes.panicked
        /\ mRes.val = None <=>
                (Dots(mStr) = {} \/ LastDot(mStr) = 1 \/ LastDot(mStr) = Len(mStr))
        /\ mRes.val # None =>
                /\ mRes.val[1] # <<>>
                /\ mRes.val[1] = SubSeq(mStr, LastDot(mStr) + 1, Len(mStr))
                /\ Dots(mRes.val[1]) = {}

\* a.b.a gives a
C18_Witness ==
    /\ mFn = "ext" /\ mStr = <<97, 46, 98, 46, 97>> /\ mRes = Returned(Some(<<97>>))

----------------------------------------------------------------------------
(* Claims about capture groups and absent matches in the Runner.           *)

FiledUnder(m, k, t) == \E e \in 1..Len(m) : m[e].key = k /\ t \in Range(m[e].vals)

\* C17: a Runner bound to Regex(pattern, capture_group) files each matching
\* token under the text of the group capture_group selects, group 0 being
\* the whole match.
C17_KeyFromSelectedGroup ==
    grSpec.kind = "Regex" =>
        \A i \in 1..Len(grLog) :
            LET c == Captures(grSpec.re, grLog[i])
            IN  (c # None /\ CapGet(c[1], grSpec.cg.number) # None) =>
                    FiledUnder(grMap, CapGet(c[1], grSpec.cg.number)[1], grLog[i])

\* with capture group 1 the token ba is filed under a
C17_Witness ==
    /\ grSpec.kind = "Regex" /\ grSpec.re.kind = "run" /\ grSpec.cg.number = 1
    /\ FiledUnder(grMap, <<97>>, <<98, 97>>)

RECURSIVE TotalVals(_)
TotalVals(m) == IF m = <<>> THEN 0 ELSE Len(Head(m).vals) + TotalVals(Tail(m))

NoExtension(t) == Dots(t) = {} \/ LastDot(t) = 1 \/ LastDot(t) = Len(t)

\* C19: a token the regex does not match, and a filename without an
\* extension, is added to the group whose key is the empty string; no token
\* fed to the Runner is dropped.
C19_AbsentUnderEmptyKey ==
    /\ grSpec.kind = "Regex" =>
        \A i \in 1..Len(grLog) :
            Captures(grSpec.re, grLog[i]) = None => FiledUnder(grMap, <<>>, grLog[i])
    /\ grSpec.kind = "FileExtension" =>
        \A i \in 1..Len(grLog) :
            NoExtension(grLog[i]) => FiledUnder(grMap, <<>>, grLog[i])
    /\ grSpec.kind \in {"Regex", "FileExtension"} => TotalVals(grMap) = Len(grLog)

\* a dotfile and a plain name share the group "", next to a group b
C19_Witness ==
    /\ grSpec.kind = "FileExtension"
    /\ FiledUnder(grMap, <<>>, <<46, 97>>) /\ FiledUnder(grMap, <<>>, <<97>>)
    /\ FiledUnder(grMap, <<98>>, <<97, 46, 98>>)

----------------------------------------------------------------------------
(* Claims about the program.                                               *)

\* C20: when command execution is requested and SHELL is not set, the run
\* fails before any grouping work: no token has been read from the input or
\* added to the grouped collection when it fails.
C20_ShellCheckedBeforeGrouping == gPc = "failed" => (gRead = 0 /\ gMap = <<>>)

\* the failure itself: a command was requested and SHELL is not set
C20_Witness == gPc = "failed" /\ gCmd # None /\ ~gShell /\ gRaw = <<>> /\ gRead = 0

----------------------------------------------------------------------------
(* Configuration errors. *)

\* Grouping options whose value is not a number or not a regular expression
BadArgs ==
    {[opt |-> "first", val |-> <<120>>], [opt |-> "first", val |-> <<>>],
     [opt |-> "last", val |-> <<49, 97>>], [opt |-> "regex", val |-> <<40>>]}

\* C21: an invalid numeric argument or an invalid regular expression fails
\* while the options are parsed, before any token is processed; the
\* expression is compiled once, at parsing, and token processing neither
\* compiles it again nor fails on the configuration.
C21_ConfigErrorsAtParse ==
    /\ (gArgs \in BadArgs /\ gPc # "parse") =>
           (gPc = "panicked" /\ gRead = 0 /\ gCalls = <<>> /\ gMap = <<>>)
    /\ gPc = "panicked" => (gArgs \in BadArgs /\ gRead = 0)
    /\ gPc # "parse" => gCompiles = (IF gArgs.opt = "regex" THEN 1 ELSE 0)
    /\ gPc = "parse" => gCompiles = 0

C21_Witness ==
    /\ gPc = "panicked" /\ gArgs = [opt |-> "regex", val |-> <<40>>] /\ gRaw # <<>>
    /\ gCompiles = 1

C21_WitnessValid ==
    /\ gPc = "done" /\ gArgs.opt = "regex" /\ gRead = 2 /\ gCompiles = 1

----------------------------------------------------------------------------
(* Subprocess failures, exit statuses and the reporter's lock. *)

ReportedKeys(results) == {p[1] : p \in results}

\* C22: when spawning, feeding or collecting the output of a group's
\* subprocess fails, the strategy fails and returns no result map; the group
\* that failed is not reported, and it is neither skipped (the sequential
\* run starts no later group) nor retried (it was spawned once).
C22_FailureFailsStrategy ==
    /\ sErr # "" =>
          /\ sPc = "panicked"
          /\ sReports[sIdx] = 0 /\ IterItem(rMap, sIdx).key \notin ReportedKeys(sResults)
          /\ sSpawns[sIdx] = 1
          /\ \A j \in (sIdx + 1)..Len(rMap) : sSpawns[j] = 0
    /\ \A i \in 1..Len(rMap) : pErr[i] # "" =>
          /\ pPc[i] = "panicked" /\ ~pReturned
          /\ pReports[i] = 0 /\ ParItem(rMap, i).key \notin ReportedKeys(pResults)
          /\ pSpawns[i] = 1

C22_Witness ==
    \E i, j \in 1..Len(rMap) :
        /\ pErr[i] = "write" /\ pPc[i] = "panicked"
        /\ pPc[j] = "finished" /\ ~pReturned

C22_WitnessSequential == sErr = "wait" /\ sPc = "panicked" /\ sIdx = 2

\* C23: the exit status of a subprocess is not looked at: whatever the
\* status, what the subprocess wrote to its standard output is reported
\* under the group's key, so the result map is the same for every status.
C23_StdoutUnderEveryStatus ==
    /\ \A i \in 1..Len(rMap) : sReports[i] = 1 =>
          <<rMap[i].key, Output(rCmd, FeedBytes(rOpt, rMap[i].key, rMap[i].vals))>>
              \in sResults
    /\ \A i \in 1..Len(rMap) : pReports[i] = 1 =>
          <<rMap[i].key, Output(rCmd, FeedBytes(rOpt, rMap[i].key, rMap[i].vals))>>
              \in pResults

C23_Witness ==
    /\ pReturned /\ sPc = "returned" /\ Len(rMap) = 2
    /\ rStatus[1] = 1 /\ rStatus[2] = 0
    /\ Cardinality(pResults) = 2 /\ Cardinality(sResults) = 2

\* the closure of entry i is inside results.report(key, result)
InReport(i) == pPc[i] \in {"locked", "read", "written"}

\* C29: in the parallel run a worker holds the reporter's lock only while
\* it inserts its entry: never while it spawns, feeds or waits for its
\* subprocess, and never after a failure of that work; so a subprocess that
\* blocks keeps no other worker from reporting.
C29_LockOnlyWhileInserting ==
    /\ pLock # 0 => InReport(pLock)
    /\ \A i \in 1..Len(rMap) : InReport(i) => pLock = i
    /\ \A j \in 1..Len(rMap) :
          (pPc[j] = "captured" /\ \A i \in 1..Len(rMap) : ~InReport(i)) => LockFree(pLock)

C29_Witness ==
    \E i, j \in 1..Len(rMap) :
        /\ pPc[i] = "fed" /\ pPc[j] = "written" /\ pLock = j

----------------------------------------------------------------------------
(* The child's stdin handle; the reporters. *)

\* C24: the stdin handle of a Child can be taken once: the first call of
\* stdin() returns the handle, every later call panics.
C24_StdinTakenOnce ==
    /\ cWriters <= 1
    /\ cCalls.stdin = 0 => cWriters = 0
    /\ cCalls.stdin = 1 => (cWriters = 1 /\ (cPc = "panicked" => cCalls.stdout = 2))
    /\ cCalls.stdin >= 2 => (cWriters = 1 /\ cPc = "panicked")

C24_Witness == cCalls.stdin = 2 /\ cPc = "panicked" /\ cWriters = 1 /\ cBuf # <<>>

\* the output of the last report made for key in log, if there is one
RECURSIVE LastReport(_, _)
LastReport(log, key) ==
    IF log = <<>> THEN None
    ELSE IF log[Len(log)][1] = key THEN Some(log[Len(log)][2])
    ELSE LastReport(SubSeq(log, 1, Len(log) - 1), key)

\* C25: report(key, bytes) inserts the entry when the key is absent and
\* replaces it when the key is present: after any sequence of reports the
\* reporter holds, for each key, the bytes of the last report made for it,
\* and nothing for a key that was never reported.
C25_LastReportHeld ==
    /\ \A key \in RepKeys : BTreeGet(repTree, key) = LastReport(repLogT, key)
    /\ \A key \in RepKeys : HashGet(repHash, key) = LastReport(repLogH, key)
    /\ \A i, j \in 1..Len(repTree) : repTree[i].key = repTree[j].key => i = j
    /\ \A p, q \in repHash : p[1] = q[1] => p = q

C25_Witness ==
    /\ repLogT = << <<<<97>>, <<>>>>, <<<<98>>, <<120>>>>, <<<<97>>, <<120>>>> >>
    /\ repLogH = << <<<<98>>, <<120>>>>, <<<<98>>, <<>>>> >>

----------------------------------------------------------------------------
(* run_command without a command. *)

\* C26: when no command is requested (run_command is None), run_command
\* returns None and does nothing else: it looks up no shell, spawns no
\* subprocess and leaves the collection as build_groups left it, whatever
\* the parallel option says.
C26_NoCommandNothingDone ==
    (gPc \in {"done", "failed"} /\ gCmd = None) =>
        /\ gPc = "done" /\ gResult = None
        /\ gLookups = 0 /\ gSpawns = 0
        /\ TotalVals(gMap) = gRead

C26_Witness ==
    /\ gPc = "done" /\ gCmd = None /\ ~gShell /\ ~gParallel
    /\ Len(gMap) = 2 /\ gResult = None /\ gLookups = 0

C26_WitnessParallel == gPc = "done" /\ gCmd = None /\ gParallel /\ gRead = 2

----------------------------------------------------------------------------
(* Tokens. *)

\* the byte that separates tokens
SepByte(sep) ==
    CASE sep.kind = "Line" -> 10
      [] sep.kind = "Null" -> 0
      [] sep.kind = "Custom" -> sep.s

\* the pieces of raw between the occurrences of byte
Between(raw, byte) == SplitAll(raw, {byte})

\* the same pieces when a separator at the very end starts no new piece
Terminated(raw, byte) ==
    IF Between(raw, byte)[Len(Between(raw, byte))] = <<>>
    THEN SubSeq(Between(raw, byte), 1, Len(Between(raw, byte)) - 1)
    ELSE Between(raw, byte)

\* the maximal runs of bytes that are not whitespace
Words(raw) == SelectWords(SplitAll(raw, Whitespace))

BuildGroupsOver == gPc \in {"output", "done"}

\* C27: build_groups calls the runner once per token, in input order, the
\* tokens being the pieces of the input between the occurrences of the
\* separator (with or without a piece after a separator that ends the
\* input); with Separator::Space they are the runs between whitespace, none
\* of them empty.
C27_RunnerCalledPerToken ==
    BuildGroupsOver =>
        IF gSep.kind = "Space"
        THEN gCalls = Words(gRaw) /\ \A i \in 1..Len(gCalls) : gCalls[i] # <<>>
        ELSE gCalls \in {Between(gRaw, SepByte(gSep)), Terminated(gRaw, SepByte(gSep))}

\* C27 read with a separator at the end of the input starting no new token
C27_TokensTerminated ==
    (BuildGroupsOver /\ gSep.kind # "Space" /\ 13 \notin Range(gRaw)) =>
        gCalls = Terminated(gRaw, SepByte(gSep))

\* C27 read with a token on each side of every separator
C27_TokensBetween ==
    (BuildGroupsOver /\ gSep.kind # "Space" /\ 13 \notin Range(gRaw)) =>
        gCalls = Between(gRaw, SepByte(gSep))

\* C27, Separator::Space alone
C27_SpaceRuns ==
    (BuildGroupsOver /\ gSep.kind = "Space") =>
        (gCalls = Words(gRaw) /\ \A i \in 1..Len(gCalls) : gCalls[i] # <<>>)

C27_Witness ==
    /\ gPc = "done" /\ gSep.kind = "Line" /\ gRaw = <<97, 13, 10>> /\ gCalls = <<<<97>>>>

C27_WitnessSpace ==
    /\ gPc = "done" /\ gSep.kind = "Space" /\ gRaw = <<97, 32, 32>> /\ gCalls = <<<<97>>>>

----------------------------------------------------------------------------
(* Statistics. *)

\* the lower median of sizes: the value at the middle of the sorted sizes,
\* the smaller of the two middle ones when their number is even
LowerMedian(sizes) ==
    IF sizes = <<>> THEN 0
    ELSE CHOOSE m \in Range(sizes) :
            /\ Cardinality({i \in 1..Len(sizes) : sizes[i] < m}) <= (Len(sizes) - 1) \div 2
            /\ Cardinality({i \in 1..Len(sizes) : sizes[i] <= m}) >= (Len(sizes) + 1) \div 2

\* C28: statistics_for reports as the median group size the lower median of
\* the sorted group sizes, the smaller of the two middle sizes for an even
\* number of groups, and 0 for an empty collection.
C28_LowerMedian ==
    gcStats # None => gcStats[1].stats.group_size_median = LowerMedian(gcStats[1].sizes)

\* C28 for an odd number of groups and for the empty collection
C28_MedianOddOrEmpty ==
    (gcStats # None /\ (Len(gcStats[1].sizes) % 2 = 1 \/ gcStats[1].sizes = <<>>)) =>
        gcStats[1].stats.group_size_median = LowerMedian(gcStats[1].sizes)

C28_Witness ==
    /\ gcStats # None /\ Len(gcStats[1].sizes) = 2
    /\ gcStats[1].stats.group_size_min = 1 /\ gcStats[1].stats.group_size_max = 3
    /\ gcStats[1].stats.group_size_median = 3

----------------------------------------------------------------------------
(* Every token in one group. *)

Occurrences(seq, t) == Cardinality({i \in 1..Len(seq) : seq[i] = t})

\* how many times t is stored in the groups of m
RECURSIVE StoredTimes(_, _)
StoredTimes(m, t) ==
    IF m = <<>> THEN 0 ELSE Occurrences(Head(m).vals, t) + StoredTimes(Tail(m), t)

\* C30: whatever the grouping specifier, the tokens run through the Runner
\* are each stored in exactly one group, once per occurrence in the input:
\* the group sizes add up to the number of tokens, no token is lost or
\* stored twice, and every key of the collection has a non-empty list.
C30_EveryTokenInOneGroup ==
    /\ TotalVals(grMap) = Len(grLog)
    /\ \A t \in Tokens : StoredTimes(grMap, t) = Occurrences(grLog, t)
    /\ \A e \in 1..Len(grMap) : grMap[e].vals # <<>>
    /\ \A e, f \in 1..Len(grMap) : grMap[e].key = grMap[f].key => e = f

\* a token that occurs twice and two more tokens, in two groups
C30_Witness ==
    /\ Len(grLog) = 4 /\ Len(grMap) = 2
    /\ \E t \in Tokens : Occurrences(grLog, t) = 2 /\ StoredTimes(grMap, t) = 2
    /\ grSpec.kind = "Regex"

====
